---- MODULE Spec2Model ----
(***************************************************************************)
(* Verification model of codemium's concurrent multi-repository engine:    *)
(*   - worker.RunTrends (bounded goroutine pool, docs/plans/...trends)     *)
(*   - provider.RateLimitTransport.RoundTrip (pacing + 429 retry)          *)
(*   - history.FindCommits and history.GenerateDates                       *)
(*   - the trends task closure of runTrends                                *)
(*   - health.AnalyzeDetails / aiestimate.Estimate and their callers       *)
(*   - health.Classify and health.ClassifyFromCommits                      *)
(***************************************************************************)
EXTENDS Integers, Sequences, FiniteSets, TLC

(***************************************************************************)
(* Bounds of the model                                                     *)
(***************************************************************************)
MaxRepos == 2
MaxConcurrency == 2
MaxOtherCalls == 2
MaxCommits == 3
MaxDates == 2
MaxTime == 3
MaxMonths == 3
MaxWeeks == 3
MaxPeriods == 4
MaxStatCommits == 2
MaxHealthCommits == 2
MaxOverflow == 1

(***************************************************************************)
(* Program constants                                                       *)
(***************************************************************************)
defaultMaxRetries == 5
StatusTooManyRequests == 429
StatusOK == 200
ActiveThresholdDays == 180
MaintainedThresholdDays == 365

VARIABLES
    \* ---- worker.RunTrends ----
    repos,        \* input slice: sequence of repository identities
    concurrency,  \* the concurrency parameter (clamped on entry)
    onProgress,   \* TRUE iff the onProgress callback is non-nil
    ctxDone,      \* ctx.Err() != nil
    pc,           \* position of the dispatching (calling) goroutine
    idx,          \* 1-based index of the range loop over repos
    sem,          \* number of elements buffered in the sem channel
    wg,           \* sync.WaitGroup counter
    mu,           \* holder of the mutex (0 = unlocked)
    results,      \* the shared accumulator slice
    completed,    \* the shared completed counter
    gpc,          \* position of each repository's goroutine
    c,            \* each goroutine's local copy c := completed
    fret,         \* what process(ctx, r) returned to each goroutine
    sink,         \* the calls received by onProgress, in order of receipt
    returned,     \* the slice handed to the caller by return results
    late,         \* number of tasks dispatched after ctx was canceled
    requested,    \* the concurrency argument as the caller passed it
    \* ---- provider.RateLimitTransport.RoundTrip ----
    ReqPerSec,    \* the transport's ReqPerSec field (0 = retry only)
    limiter,      \* NilChan or number of tokens buffered in the limiter channel
    reqDone,      \* req.Context().Done() is closed
    rpc,          \* position of RoundTrip
    attempt,      \* the loop variable attempt
    resp,         \* the response last returned by the base transport
    delay,        \* the backoff delay computed for the pending retry (seconds)
    timer,        \* TRUE iff the channel of time.After(delay) is ready
    rret,         \* the (response, error) pair returned by RoundTrip
    baseCalls,    \* number of calls made to t.base().RoundTrip
    throttled,    \* number of 429 responses the base transport gave RoundTrip
    taken,        \* number of tokens received from the limiter channel
    issued,       \* number of tokens the ticker goroutine put in the channel
    otherCalls,   \* base calls started by other requests sharing the transport
    bodies,       \* resp.Body of every response the base transport returned
    \* ---- history.FindCommits ----
    log,          \* the repository's commit log as repo.Log yields it
    dates,        \* the dates argument: the target instants
    repoFault,    \* which repository operation fails, "none" when none does
    fpc,          \* position of FindCommits
    commits,      \* the local slice commits
    di,           \* 1-based index of the range loop over dates
    result,       \* the local map result
    ferr,         \* the error FindCommits returns
    \* ---- history.GenerateDates ----
    since,        \* the since argument
    until,        \* the until argument
    interval,     \* the interval argument
    dpc,          \* position of GenerateDates
    cur,          \* the loop variable cur
    end,          \* the parsed until
    generated,    \* the local slice dates of the generator
    \* ---- the trends task closure ----
    tinterval,    \* the interval captured by the closure
    tdates,       \* the dates captured by the closure
    periods,      \* the period labels captured by the closure
    tpc,          \* position of the closure
    commitMap,    \* the local map commitMap
    ti,           \* 1-based index of the range loop over dates
    snapshots,    \* the local map snapshots
    stepLog,      \* how the loop body ended for each period so far
    tret,         \* what the closure returns: whether a map, and the error
    \* ---- health.AnalyzeDetails / aiestimate.Estimate and their caller ----
    sfn,          \* which of the two functions runs
    scommits,     \* the commits whose stats are fetched
    sctxDone,     \* ctx.Err() != nil
    spc,          \* position of the function, then of the calling closure
    si,           \* 1-based index of the dispatch loop
    ssem,         \* number of elements buffered in the sem channel
    swg,          \* sync.WaitGroup counter
    wpc,          \* position of each commit's goroutine
    wret,         \* what CommitStats returned to each goroutine
    sresults,     \* the slice results (AnalyzeDetails) or details (Estimate)
    partialErrors, \* the slice partialErrors of AnalyzeDetails
    sret,         \* the (result, partial errors, error) the function returns
    diagErrors,   \* the diagErrors slice of runAnalyze
    outcome,      \* the (stats, error) the closure returns to the pool
    \* ---- health.Classify and health.ClassifyFromCommits ----
    hfn,          \* the function called: "Classify" or "ClassifyFromCommits"
    lastCommitDate, \* the lastCommitDate argument of a direct Classify call
    hcommits,     \* the commits argument: the Date of each provider.CommitInfo
    now,          \* the now argument
    hpc,          \* position of the call
    hi,           \* 1-based index of the range loop over commits[1:]
    latest,       \* the local variable latest
    health,       \* the *model.RepoHealth returned
    \* ---- the per-commit fan-out of Analyze, AnalyzeDetails, Estimate ----
    lateCalls     \* number of calls dispatched after ctx was canceled

runnerVars == <<repos, concurrency, onProgress, ctxDone, pc, idx, sem, wg, mu,
                results, completed, gpc, c, fret, sink, returned, late,
                requested>>
transportVars == <<ReqPerSec, limiter, reqDone, rpc, attempt, resp, delay,
                   timer, rret, baseCalls, throttled, taken, issued,
                   otherCalls, bodies>>
resolveVars == <<log, dates, repoFault, fpc, commits, di, result, ferr>>
datesVars == <<since, until, interval, dpc, cur, end, generated>>
taskVars == <<tinterval, tdates, periods, tpc, commitMap, ti, snapshots,
              stepLog, tret>>
statsVars == <<sfn, scommits, sctxDone, spc, si, ssem, swg, wpc, wret,
               sresults, partialErrors, sret, diagErrors, outcome>>
healthVars == <<hfn, lastCommitDate, hcommits, now, hpc, hi, latest, health>>
fanOutVars == <<lateCalls>>
vars == <<runnerVars, transportVars, resolveVars, datesVars, taskVars,
          statsVars, healthVars, fanOutVars>>
exceptRunner == <<transportVars, resolveVars, datesVars, taskVars, statsVars,
                  healthVars, fanOutVars>>
exceptTransport == <<runnerVars, resolveVars, datesVars, taskVars, statsVars,
                     healthVars, fanOutVars>>
exceptResolve == <<runnerVars, transportVars, datesVars, taskVars, statsVars,
                   healthVars, fanOutVars>>
exceptDates == <<runnerVars, transportVars, resolveVars, taskVars, statsVars,
                 healthVars, fanOutVars>>
exceptTask == <<runnerVars, transportVars, resolveVars, datesVars, statsVars,
                healthVars, fanOutVars>>
exceptStats == <<runnerVars, transportVars, resolveVars, datesVars, taskVars,
                 healthVars, fanOutVars>>
exceptHealth == <<runnerVars, transportVars, resolveVars, datesVars, taskVars,
                  statsVars, fanOutVars>>
exceptFanOut == <<runnerVars, transportVars, resolveVars, datesVars, taskVars,
                  healthVars>>

nil == "nil"       \* a nil error
NilMap == 0        \* a nil snapshots map
NilChan == -1      \* a nil channel
\* a nil *http.Response
NilResponse == [err |-> nil, status |-> 0, retryAfter |-> <<>>]

(***************************************************************************)
(* worker.RunTrends                                                        *)
(***************************************************************************)
Repos == 1..MaxRepos

\* The snapshots map a successful process call computes for repository r.
Snapshots(r) == r

\* The (snapshots, err) pairs the trends task closure can return for r:
\* the snapshots with a nil error, or nil with the error of a failed clone
\* or commit lookup, or nil with the error of the canceled context.
ProcessReturns(r) ==
    {[snapshots |-> Snapshots(r), err |-> nil],
     [snapshots |-> NilMap, err |-> "failed"]}
    \cup (IF ctxDone THEN {[snapshots |-> NilMap, err |-> "context canceled"]} ELSE {})

\* if concurrency < 1 { concurrency = 1 }
ClampNone(n) == n
Clamp(n) == IF n < 1 THEN 1 ELSE n

\* TrendsResult{Repo: r, Snapshots: snapshots, Err: err}
TrendsResult(r, rv) == [Repo |-> r, Snapshots |-> rv.snapshots, Err |-> rv.err]

\* results = append(results, TrendsResult{...})
AppendDropFailed(res, r, rv) ==
    IF rv.err # nil THEN res ELSE Append(res, TrendsResult(r, rv))
AppendResult(res, r, rv) == Append(res, TrendsResult(r, rv))

\* sem <- struct{}{} can proceed: the buffered channel is not full
SemHasRoomOffByOne == sem < concurrency + 1
SemHasRoom == sem < concurrency

\* if ctx.Err() != nil { break }
ShouldBreakNever == FALSE
ShouldBreakOnError == ctxDone \/ \E k \in 1..Len(results) : results[k].Err # nil
ShouldBreak == ctxDone

\* wg.Wait() can return
WaitReadyAlways == TRUE
WaitReady == wg = 0

\* mu.Unlock()
MutexAfterAppendHeld(r) == r
MutexAfterAppend(r) == 0

\* onProgress(c, len(repos), r): the total handed to the sink
ProgressTotalDispatched == idx - 1
ProgressTotal == Len(repos)

\* defer func() { <-sem }()
SemAfterReleaseOnSuccess(rv) == IF rv.err = nil THEN sem - 1 ELSE sem
SemAfterRelease(rv) == sem - 1

\* defer wg.Done()
WgAfterDoneLost == wg
WgAfterDone == wg - 1

\* State at the call of RunTrends
RunnerStart ==
    /\ \E n \in 0..MaxRepos : repos = [k \in 1..n |-> k]
    /\ concurrency \in -1..MaxConcurrency
    /\ requested = concurrency
    /\ onProgress \in BOOLEAN
    /\ ctxDone = FALSE
    /\ pc = "entry"
    /\ idx = 1
    /\ sem = 0
    /\ wg = 0
    /\ mu = 0
    /\ results = <<>>
    /\ completed = 0
    /\ gpc = [r \in Repos |-> "none"]
    /\ c = [r \in Repos |-> 0]
    /\ fret = [r \in Repos |-> [snapshots |-> NilMap, err |-> nil]]
    /\ sink = <<>>
    /\ returned = <<>>
    /\ late = 0

\* Entry of RunTrends: clamp the limit, make(chan struct{}, concurrency)
Enter ==
    /\ pc = "entry"
    /\ concurrency' = Clamp(concurrency)
    /\ pc' = "loop"
    /\ UNCHANGED <<repos, onProgress, ctxDone, idx, sem, wg, mu, results,
                   completed, gpc, c, fret, sink, returned, late, requested>>

\* Head of the range loop and the cancellation check before each dispatch
LoopCheck ==
    /\ pc = "loop"
    /\ pc' = IF idx > Len(repos) \/ ShouldBreak THEN "wait" ELSE "send"
    /\ UNCHANGED <<repos, concurrency, onProgress, ctxDone, idx, sem, wg, mu,
                   results, completed, gpc, c, fret, sink, returned, late, requested>>

\* sem <- struct{}{}; wg.Add(1); go func(r model.Repo) {...}(repo)
Dispatch ==
    /\ pc = "send"
    /\ SemHasRoom
    /\ sem' = sem + 1
    /\ wg' = wg + 1
    /\ gpc' = [gpc EXCEPT ![repos[idx]] = "spawned"]
    /\ idx' = idx + 1
    /\ late' = IF ctxDone THEN late + 1 ELSE late
    /\ pc' = "loop"
    /\ UNCHANGED <<repos, concurrency, onProgress, ctxDone, mu, results,
                   completed, c, fret, sink, returned, requested>>

\* wg.Wait(); return results
Wait ==
    /\ pc = "wait"
    /\ WaitReady
    /\ returned' = results
    /\ pc' = "returned"
    /\ UNCHANGED <<repos, concurrency, onProgress, ctxDone, idx, sem, wg, mu,
                   results, completed, gpc, c, fret, sink, late, requested>>

\* The goroutine is scheduled and calls process(ctx, r)
ProcessCall(r) ==
    /\ gpc[r] = "spawned"
    /\ gpc' = [gpc EXCEPT ![r] = "process"]
    /\ UNCHANGED <<repos, concurrency, onProgress, ctxDone, pc, idx, sem, wg,
                   mu, results, completed, c, fret, sink, returned, late, requested>>

\* snapshots, err := process(ctx, r) returns
ProcessReturn(r) ==
    /\ gpc[r] = "process"
    /\ \E rv \in ProcessReturns(r) : fret' = [fret EXCEPT ![r] = rv]
    /\ gpc' = [gpc EXCEPT ![r] = "lock"]
    /\ UNCHANGED <<repos, concurrency, onProgress, ctxDone, pc, idx, sem, wg,
                   mu, results, completed, c, sink, returned, late, requested>>

\* mu.Lock()
Lock(r) ==
    /\ gpc[r] = "lock"
    /\ mu = 0
    /\ mu' = r
    /\ gpc' = [gpc EXCEPT ![r] = "critical"]
    /\ UNCHANGED <<repos, concurrency, onProgress, ctxDone, pc, idx, sem, wg,
                   results, completed, c, fret, sink, returned, late, requested>>

\* results = append(...); completed++; c := completed; mu.Unlock()
AppendUnlock(r) ==
    /\ gpc[r] = "critical"
    /\ mu = r
    /\ results' = AppendResult(results, r, fret[r])
    /\ completed' = completed + 1
    /\ c' = [c EXCEPT ![r] = completed + 1]
    /\ mu' = MutexAfterAppend(r)
    /\ gpc' = [gpc EXCEPT ![r] = "notify"]
    /\ UNCHANGED <<repos, concurrency, onProgress, ctxDone, pc, idx, sem, wg,
                   fret, sink, returned, late, requested>>

\* if onProgress != nil { onProgress(c, len(repos), r) }
Notify(r) ==
    /\ gpc[r] = "notify"
    /\ sink' = IF onProgress
               THEN Append(sink, [completed |-> c[r], total |-> ProgressTotal,
                                  repo |-> r])
               ELSE sink
    /\ gpc' = [gpc EXCEPT ![r] = "release"]
    /\ UNCHANGED <<repos, concurrency, onProgress, ctxDone, pc, idx, sem, wg,
                   mu, results, completed, c, fret, returned, late, requested>>

\* defer func() { <-sem }()
ReleaseSem(r) ==
    /\ gpc[r] = "release"
    /\ sem' = SemAfterRelease(fret[r])
    /\ gpc' = [gpc EXCEPT ![r] = "wgdone"]
    /\ UNCHANGED <<repos, concurrency, onProgress, ctxDone, pc, idx, wg, mu,
                   results, completed, c, fret, sink, returned, late, requested>>

\* defer wg.Done()
WgDone(r) ==
    /\ gpc[r] = "wgdone"
    /\ wg' = WgAfterDone
    /\ gpc' = [gpc EXCEPT ![r] = "exit"]
    /\ UNCHANGED <<repos, concurrency, onProgress, ctxDone, pc, idx, sem, mu,
                   results, completed, c, fret, sink, returned, late, requested>>

\* The interrupt signal cancels ctx (signal.NotifyContext in the caller)
Cancel ==
    /\ ~ctxDone
    /\ pc # "returned"
    /\ ctxDone' = TRUE
    /\ UNCHANGED <<repos, concurrency, onProgress, pc, idx, sem, wg, mu,
                   results, completed, gpc, c, fret, sink, returned, late, requested>>

\* State of the runner while only the transport is exercised
RunnerIdle ==
    /\ repos = <<>>
    /\ concurrency = 1
    /\ onProgress = FALSE
    /\ ctxDone = FALSE
    /\ pc = "entry"
    /\ idx = 1
    /\ sem = 0
    /\ wg = 0
    /\ mu = 0
    /\ results = <<>>
    /\ completed = 0
    /\ gpc = [r \in Repos |-> "none"]
    /\ c = [r \in Repos |-> 0]
    /\ fret = [r \in Repos |-> [snapshots |-> NilMap, err |-> nil]]
    /\ sink = <<>>
    /\ returned = <<>>
    /\ late = 0
    /\ requested = 1

(***************************************************************************)
(* provider.RateLimitTransport                                             *)
(***************************************************************************)
\* Values of the Retry-After header of a 429 response, as character sequences
RetryAfterValues ==
    { <<>>, <<"1">>, <<"3">>, <<"6", "0">>, <<"+", "2">>,
      <<"0">>, <<"-", "3">>, <<"a">>, <<"1", ".", "5">> }

\* Responses of the base transport: a transport error, or a status with headers
BaseResponses ==
    {[err |-> "transport error", status |-> 0, retryAfter |-> <<>>]}
    \cup {[err |-> nil, status |-> s, retryAfter |-> <<>>] : s \in {StatusOK, 500}}
    \cup {[err |-> nil, status |-> StatusTooManyRequests, retryAfter |-> h] :
            h \in RetryAfterValues}

DigitValue ==
    [ch \in {"0", "1", "2", "3", "4", "5", "6", "7", "8", "9"} |->
        CASE ch = "0" -> 0 [] ch = "1" -> 1 [] ch = "2" -> 2 [] ch = "3" -> 3
          [] ch = "4" -> 4 [] ch = "5" -> 5 [] ch = "6" -> 6 [] ch = "7" -> 7
          [] ch = "8" -> 8 [] ch = "9" -> 9]

RECURSIVE ParseDigits(_)
ParseDigits(s) ==
    IF s = <<>> THEN 0
    ELSE 10 * ParseDigits(SubSeq(s, 1, Len(s) - 1)) + DigitValue[s[Len(s)]]

\* strconv.Atoi: optional sign, then one or more decimal digits
Atoi(s) ==
    LET signed == s # <<>> /\ s[1] \in {"+", "-"}
        body == IF signed THEN Tail(s) ELSE s
    IN  IF body = <<>> \/ \E k \in 1..Len(body) : body[k] \notin DOMAIN DigitValue
        THEN [val |-> 0, err |-> "invalid syntax"]
        ELSE [val |-> IF signed /\ s[1] = "-" THEN 0 - ParseDigits(body)
                      ELSE ParseDigits(body),
              err |-> nil]

\* Backoff: use Retry-After header or exponential (1s, 2s, 4s...); in seconds
BackoffDelayCapped(a, ra) ==
    LET secs == Atoi(ra)
    IN  IF ra # <<>> /\ secs.err = nil /\ secs.val > 0 /\ secs.val < 2 ^ a
        THEN secs.val ELSE 2 ^ a
BackoffDelayZeroAccepted(a, ra) ==
    LET secs == Atoi(ra)
    IN  IF ra # <<>> /\ secs.err = nil /\ secs.val >= 0 THEN secs.val ELSE 2 ^ a
BackoffDelay(a, ra) ==
    LET secs == Atoi(ra)
    IN  IF ra # <<>> /\ secs.err = nil /\ secs.val > 0 THEN secs.val ELSE 2 ^ a

\* attempt >= defaultMaxRetries
RetriesExhaustedLate(a) == a > defaultMaxRetries
RetriesExhausted(a) == a >= defaultMaxRetries

\* return nil, req.Context().Err()
CtxErrReturnStale == [resp |-> resp, err |-> "context canceled"]
CtxErrReturn == [resp |-> NilResponse, err |-> "context canceled"]

TransportIdle ==
    /\ ReqPerSec = 0
    /\ limiter = NilChan
    /\ reqDone = FALSE
    /\ rpc = "entry"
    /\ attempt = 0
    /\ resp = NilResponse
    /\ delay = 0
    /\ timer = FALSE
    /\ rret = [resp |-> NilResponse, err |-> nil]
    /\ baseCalls = 0
    /\ throttled = 0
    /\ taken = 0
    /\ issued = 0
    /\ otherCalls = 0
    /\ bodies = <<>>

\* State of a RateLimitTransport literal before its first RoundTrip
TransportStart ==
    /\ ReqPerSec \in {0, 2}
    /\ limiter = NilChan
    /\ reqDone = FALSE
    /\ rpc = "entry"
    /\ attempt = 0
    /\ resp = NilResponse
    /\ delay = 0
    /\ timer = FALSE
    /\ rret = [resp |-> NilResponse, err |-> nil]
    /\ baseCalls = 0
    /\ throttled = 0
    /\ taken = 0
    /\ issued = 0
    /\ otherCalls = 0
    /\ bodies = <<>>

\* resp.Body of a response the base transport has just returned: nothing
\* read from it yet, not closed
FreshBody == [read |-> FALSE, closed |-> FALSE]

\* io.Copy(io.Discard, resp.Body); resp.Body.Close(): the body is read until
\* Read returns io.EOF or an error, then closed
DrainOnly(body) == [read |-> TRUE, closed |-> body.closed]
DrainAndClose(body) == [read |-> TRUE, closed |-> TRUE]

\* if t.limiter != nil
LimiterConfiguredFirstAttempt == limiter # NilChan /\ attempt = 0
LimiterConfigured == limiter # NilChan

\* resp.StatusCode != http.StatusTooManyRequests is false
IsRateLimitedOrServerError(rsp) == rsp.status >= StatusTooManyRequests
IsRateLimited(rsp) == rsp.status = StatusTooManyRequests

\* t.once.Do(t.init): the limiter channel exists iff ReqPerSec > 0
RoundTripEnter ==
    /\ rpc = "entry"
    /\ limiter' = IF ReqPerSec > 0 THEN 0 ELSE NilChan
    /\ attempt' = 0
    /\ rpc' = "pace"
    /\ UNCHANGED <<ReqPerSec, reqDone, resp, delay, timer, rret, baseCalls,
                   throttled, taken, issued, otherCalls, bodies>>

\* The ticker goroutine: select { case t.limiter <- struct{}{}: default: }
Tick ==
    /\ limiter # NilChan
    /\ limiter' = IF limiter < 1 THEN limiter + 1 ELSE limiter
    /\ issued' = IF limiter < 1 THEN issued + 1 ELSE issued
    /\ UNCHANGED <<ReqPerSec, reqDone, rpc, attempt, resp, delay, timer, rret,
                   baseCalls, throttled, taken, otherCalls, bodies>>

\* if t.limiter != nil is false: no pacing wait
PaceSkip ==
    /\ rpc = "pace"
    /\ ~LimiterConfigured
    /\ rpc' = "call"
    /\ UNCHANGED <<ReqPerSec, limiter, reqDone, attempt, resp, delay, timer,
                   rret, baseCalls, throttled, taken, issued, otherCalls, bodies>>

\* select case <-req.Context().Done() of the pacing wait
PaceCanceled ==
    /\ rpc = "pace"
    /\ LimiterConfigured
    /\ reqDone
    /\ rret' = CtxErrReturn
    /\ rpc' = "done"
    /\ UNCHANGED <<ReqPerSec, limiter, reqDone, attempt, resp, delay, timer,
                   baseCalls, throttled, taken, issued, otherCalls, bodies>>

\* select case <-t.limiter of the pacing wait
PaceToken ==
    /\ rpc = "pace"
    /\ LimiterConfigured
    /\ limiter > 0
    /\ limiter' = limiter - 1
    /\ taken' = taken + 1
    /\ rpc' = "call"
    /\ UNCHANGED <<ReqPerSec, reqDone, attempt, resp, delay, timer, rret,
                   baseCalls, throttled, issued, otherCalls, bodies>>

\* An attempt of another request that shares the transport: it receives a
\* token when the limiter exists, then calls the base transport
OtherAttempt ==
    /\ rpc # "entry"
    /\ otherCalls < MaxOtherCalls
    /\ IF limiter # NilChan
       THEN /\ limiter > 0
            /\ limiter' = limiter - 1
            /\ taken' = taken + 1
       ELSE UNCHANGED <<limiter, taken>>
    /\ otherCalls' = otherCalls + 1
    /\ UNCHANGED <<ReqPerSec, reqDone, rpc, attempt, resp, delay, timer, rret,
                   baseCalls, throttled, issued, bodies>>

\* resp, err := t.base().RoundTrip(req) and the handling of its result
BaseRoundTrip ==
    /\ rpc = "call"
    /\ baseCalls' = baseCalls + 1
    /\ \E rsp \in BaseResponses :
        /\ resp' = rsp
        /\ throttled' = IF rsp.err = nil /\ rsp.status = StatusTooManyRequests
                        THEN throttled + 1 ELSE throttled
        /\ IF rsp.err # nil
           THEN /\ rret' = [resp |-> NilResponse, err |-> rsp.err]
                /\ rpc' = "done"
                /\ UNCHANGED <<delay, timer, bodies>>
           ELSE IF ~IsRateLimited(rsp) \/ RetriesExhausted(attempt)
           THEN /\ rret' = [resp |-> rsp, err |-> nil]
                /\ bodies' = Append(bodies, FreshBody)
                /\ rpc' = "done"
                /\ UNCHANGED <<delay, timer>>
           ELSE /\ bodies' = Append(bodies, DrainAndClose(FreshBody))
                /\ delay' = BackoffDelay(attempt, rsp.retryAfter)
                /\ timer' = FALSE
                /\ rpc' = "backoff"
                /\ UNCHANGED rret
    /\ UNCHANGED <<ReqPerSec, limiter, reqDone, attempt, taken, issued,
                   otherCalls>>

\* The timer of time.After(delay) expires
TimerFire ==
    /\ rpc = "backoff"
    /\ ~timer
    /\ timer' = TRUE
    /\ UNCHANGED <<ReqPerSec, limiter, reqDone, rpc, attempt, resp, delay, rret,
                   baseCalls, throttled, taken, issued, otherCalls, bodies>>

\* select case <-req.Context().Done() of the backoff wait
BackoffCanceled ==
    /\ rpc = "backoff"
    /\ reqDone
    /\ rret' = CtxErrReturn
    /\ rpc' = "done"
    /\ UNCHANGED <<ReqPerSec, limiter, reqDone, attempt, resp, delay, timer,
                   baseCalls, throttled, taken, issued, otherCalls, bodies>>

\* select case <-time.After(delay) of the backoff wait; attempt++
BackoffElapsed ==
    /\ rpc = "backoff"
    /\ timer
    /\ attempt' = attempt + 1
    /\ rpc' = "pace"
    /\ UNCHANGED <<ReqPerSec, limiter, reqDone, resp, delay, timer, rret,
                   baseCalls, throttled, taken, issued, otherCalls, bodies>>

\* The request's context is canceled
CancelRequest ==
    /\ ~reqDone
    /\ rpc # "done"
    /\ reqDone' = TRUE
    /\ UNCHANGED <<ReqPerSec, limiter, rpc, attempt, resp, delay, timer, rret,
                   baseCalls, throttled, taken, issued, otherCalls, bodies>>

(***************************************************************************)
(* history.FindCommits                                                     *)
(***************************************************************************)
\* Instants are counted in whole units from 0; a commit log is a sequence of
\* commits in the order repo.Log yields them (git.LogOrderCommitterTime),
\* each with its Author.When and its hash (distinct along the log).
Instants == 0..MaxTime
ZeroHash == 0
Commit(k, w) == [Hash |-> k, When |-> w]
RECURSIVE Logs(_)
Logs(n) ==
    IF n = 0 THEN {<<>>}
    ELSE Logs(n - 1) \cup
         {Append(l, Commit(Len(l) + 1, w)) :
            l \in {x \in Logs(n - 1) : Len(x) = n - 1}, w \in 1..MaxTime}
RECURSIVE DateLists(_)
DateLists(n) ==
    IF n = 0 THEN {<<>>}
    ELSE DateLists(n - 1) \cup
         {Append(l, t) : l \in {x \in DateLists(n - 1) : Len(x) = n - 1},
                         t \in Instants}

\* time.Time.After and its strict opposite
After(w, t) == w > t
Before(w, t) == w < t

\* !c.Author.When.After(targetDate)
AtOrBeforeStrict(w, t) == Before(w, t)
AtOrBefore(w, t) == ~After(w, t)

\* for _, c := range commits { if ... { result[targetDate] = c.Hash; break } }
\* gives the index of the commit stored for t, 0 when none is stored
RECURSIVE FirstMatch(_, _, _)
FirstMatch(cs, t, k) ==
    IF k > Len(cs) THEN 0
    ELSE IF AtOrBefore(cs[k].When, t) THEN k
    ELSE FirstMatch(cs, t, k + 1)
\* the same loop without its break: the last assignment stays
RECURSIVE LastMatch(_, _, _)
LastMatch(cs, t, k) ==
    IF k = 0 THEN 0
    ELSE IF AtOrBefore(cs[k].When, t) THEN k
    ELSE LastMatch(cs, t, k - 1)
ScanCommitsNoBreak(cs, t) == LastMatch(cs, t, Len(cs))
ScanCommits(cs, t) == FirstMatch(cs, t, 1)

\* result[targetDate] = c.Hash on a map
MapStoreIfEmpty(m, t, h) ==
    IF DOMAIN m = {} THEN [x \in {t} |-> h] ELSE m
MapStore(m, t, h) == [x \in DOMAIN m \cup {t} |-> IF x = t THEN h ELSE m[x]]
EmptyMap == [x \in {} |-> ZeroHash]

ResolveIdle ==
    /\ log = <<>>
    /\ dates = <<>>
    /\ repoFault = "none"
    /\ fpc = "entry"
    /\ commits = <<>>
    /\ di = 1
    /\ result = EmptyMap
    /\ ferr = nil

\* A repository with its commit log, a list of target dates
ResolveStart ==
    /\ log \in Logs(MaxCommits)
    /\ dates \in DateLists(MaxDates)
    /\ repoFault \in {"none", "head", "log", "iter"}
    /\ fpc = "entry"
    /\ commits = <<>>
    /\ di = 1
    /\ result = EmptyMap
    /\ ferr = nil

\* head, err := repo.Head(); logIter, err := repo.Log(...)
OpenLog ==
    /\ fpc = "entry"
    /\ IF repoFault \in {"head", "log"}
       THEN /\ ferr' = repoFault
            /\ fpc' = "done"
       ELSE /\ fpc' = "collect"
            /\ UNCHANGED ferr
    /\ UNCHANGED <<log, dates, repoFault, commits, di, result>>

\* logIter.ForEach(...): collect all commits in log order
CollectCommits ==
    /\ fpc = "collect"
    /\ IF repoFault = "iter"
       THEN /\ ferr' = repoFault
            /\ fpc' = "done"
            /\ UNCHANGED commits
       ELSE /\ commits' = log
            /\ fpc' = "dates"
            /\ UNCHANGED ferr
    /\ UNCHANGED <<log, dates, repoFault, di, result>>

\* One iteration of for _, targetDate := range dates
ResolveDate ==
    /\ fpc = "dates"
    /\ di <= Len(dates)
    /\ LET targetDate == dates[di]
           k == ScanCommits(commits, targetDate)
       IN  result' = IF k = 0 THEN result
                     ELSE MapStore(result, targetDate, commits[k].Hash)
    /\ di' = di + 1
    /\ UNCHANGED <<log, dates, repoFault, fpc, commits, ferr>>

\* return result, nil
ResolveReturn ==
    /\ fpc = "dates"
    /\ di > Len(dates)
    /\ fpc' = "done"
    /\ UNCHANGED <<log, dates, repoFault, commits, di, result, ferr>>

(***************************************************************************)
(* history.GenerateDates                                                   *)
(***************************************************************************)
\* A time.Time in UTC: day counts the days since January 1 of year 1, sec
\* the seconds since midnight of that day.
Time(n, s) == [day |-> n, sec |-> s]
ZeroTime == Time(0, 0)
TimeAfter(t, u) == t.day > u.day \/ (t.day = u.day /\ t.sec > u.sec)
TimeBefore(t, u) == t.day < u.day \/ (t.day = u.day /\ t.sec < u.sec)

\* package time: the calendar arithmetic behind Date, AddDate, Year, Month, Day
daysPer400Years == 365 * 400 + 97
daysPer100Years == 365 * 100 + 24
daysPer4Years == 365 * 4 + 1
daysBefore == <<0, 31, 59, 90, 120, 151, 181, 212, 243, 273, 304, 334, 365>>
isLeap(year) == year % 4 = 0 /\ (year % 100 # 0 \/ year % 400 = 0)
daysIn(m, year) ==
    IF m = 2 /\ isLeap(year) THEN 29 ELSE daysBefore[m + 1] - daysBefore[m]
\* days from January 1 of year 1 to January 1 of year
daysSinceEpoch(year) ==
    LET y == year - 1
        n400 == y \div 400
        y1 == y - 400 * n400
        n100 == y1 \div 100
        y2 == y1 - 100 * n100
        n4 == y2 \div 4
        n1 == y2 - 4 * n4
    IN  daysPer400Years * n400 + daysPer100Years * n100 + daysPer4Years * n4
            + 365 * n1

\* time.Date(year, month, day, hour, min, sec, 0, time.UTC): month and day
\* outside their ranges are normalised
Date(year, month, day, hour, min, sec) ==
    LET m0 == month - 1
        y == year + (m0 \div 12)
        m == (m0 % 12) + 1
        d == daysSinceEpoch(y) + daysBefore[m]
                + (IF isLeap(y) /\ m >= 3 THEN 1 ELSE 0) + (day - 1)
    IN  Time(d, hour * 3600 + min * 60 + sec)

\* Time.Date(): the year, month and day in which t occurs
absDate(t) ==
    LET n400 == t.day \div daysPer400Years
        d1 == t.day - daysPer400Years * n400
        c100 == d1 \div daysPer100Years
        n100 == c100 - (c100 \div 4)
        d2 == d1 - daysPer100Years * n100
        n4 == d2 \div daysPer4Years
        d3 == d2 - daysPer4Years * n4
        c1 == d3 \div 365
        n1 == c1 - (c1 \div 4)
        yday == d3 - 365 * n1
        year == 400 * n400 + 100 * n100 + 4 * n4 + n1 + 1
        leapDay == isLeap(year) /\ yday = 31 + 29 - 1
        day == IF isLeap(year) /\ yday > 31 + 29 - 1 THEN yday - 1 ELSE yday
        m0 == day \div 31
        month == IF day >= daysBefore[m0 + 2] THEN m0 + 2 ELSE m0 + 1
    IN  IF leapDay THEN [year |-> year, month |-> 2, day |-> 29]
        ELSE [year |-> year, month |-> month,
              day |-> day - daysBefore[month] + 1]
Year(t) == absDate(t).year
Month(t) == absDate(t).month
Day(t) == absDate(t).day

\* t.AddDate(years, months, days)
AddDate(t, years, months, days) ==
    Date(Year(t) + years, Month(t) + months, Day(t) + days,
         t.sec \div 3600, (t.sec % 3600) \div 60, t.sec % 60)

\* The since and until arguments: the text of a year and month ("ym"), of a
\* year, month and day ("ymd"), or text in neither form ("bad")
BadText == [layout |-> "bad", y |-> 0, m |-> 0, d |-> 0]
YearMonth(y, m) == [layout |-> "ym", y |-> y, m |-> m, d |-> 0]
YearMonthDay(y, m, d) == [layout |-> "ymd", y |-> y, m |-> m, d |-> d]
Years == {1900, 2000, 2024, 2025}
DaysOfMonth == {1, 15, 28, 29, 30, 31}
SinceValues ==
    {BadText}
    \cup {YearMonth(y, m) : y \in Years, m \in 0..13}
    \cup {YearMonthDay(y, m, d) : y \in Years, m \in 1..12, d \in DaysOfMonth}
\* until: the text of a date a few months or days around a well-formed since
UntilValues(s) ==
    {BadText}
    \cup (IF s.layout = "ym" /\ s.m \in 1..12
          THEN {YearMonth(Year(t), Month(t)) :
                    t \in {Date(s.y, s.m + k, 1, 0, 0, 0) : k \in (0 - 2)..MaxMonths}}
                \cup {YearMonthDay(s.y, s.m, 1)}
          ELSE {})
    \cup (IF s.layout = "ymd" /\ s.d <= daysIn(s.m, s.y)
          THEN {YearMonthDay(Year(t), Month(t), Day(t)) :
                    t \in {Date(s.y, s.m, s.d + k, 0, 0, 0) :
                            k \in (0 - 1)..(7 * MaxWeeks + 1)}}
                \cup {YearMonth(s.y, s.m)}
          ELSE {})

\* time.Parse("2006-01", v)
ParseYearMonth(v) ==
    IF v.layout = "ym" /\ v.m \in 1..12
    THEN [t |-> Date(v.y, v.m, 1, 0, 0, 0), err |-> nil]
    ELSE [t |-> ZeroTime, err |-> "parsing time"]
\* time.Parse("2006-01-02", v)
ParseYearMonthDay(v) ==
    IF v.layout = "ymd" /\ v.m \in 1..12 /\ v.d >= 1 /\ v.d <= daysIn(v.m, v.y)
    THEN [t |-> Date(v.y, v.m, v.d, 0, 0, 0), err |-> nil]
    ELSE [t |-> ZeroTime, err |-> "parsing time"]

\* !cur.After(end)
LoopContinuesStrict(t, u) == TimeBefore(t, u)
LoopContinues(t, u) == ~TimeAfter(t, u)

\* cur.AddDate(0, 1, 0)
NextMonthSkipping(t) == AddDate(t, 0, 2, 0)
NextMonth(t) == AddDate(t, 0, 1, 0)
\* nextMonth.AddDate(0, 0, -1)
LastDayNoStepBack(nextMonth) == nextMonth
LastDay(nextMonth) == AddDate(nextMonth, 0, 0, 0 - 1)
\* eom := time.Date(lastDay.Year(), lastDay.Month(), lastDay.Day(), 23, 59, 59, 0, time.UTC)
EndOfMonth(t) ==
    LET lastDay == LastDay(NextMonth(t))
    IN  Date(Year(lastDay), Month(lastDay), Day(lastDay), 23, 59, 59)
\* cur.AddDate(0, 0, 7)
NextWeek(t) == AddDate(t, 0, 0, 7)
\* eod := time.Date(cur.Year(), cur.Month(), cur.Day(), 23, 59, 59, 0, time.UTC)
EndOfDay(t) == Date(Year(t), Month(t), Day(t), 23, 59, 59)

DatesIdle ==
    /\ since = BadText
    /\ until = BadText
    /\ interval = "monthly"
    /\ dpc = "entry"
    /\ cur = ZeroTime
    /\ end = ZeroTime
    /\ generated = <<>>

\* The arguments of a call GenerateDates(since, until, interval)
DatesStart ==
    /\ interval \in {"monthly", "weekly", "daily"}
    /\ since \in SinceValues
    /\ until \in UntilValues(since)
    /\ dpc = "entry"
    /\ cur = ZeroTime
    /\ end = ZeroTime
    /\ generated = <<>>

\* The switch of GenerateDates and the two time.Parse calls of the generator
GenerateDatesCall ==
    /\ dpc = "entry"
    /\ LET monthly == interval = "monthly"
           start == IF monthly THEN ParseYearMonth(since)
                    ELSE ParseYearMonthDay(since)
           stop == IF monthly THEN ParseYearMonth(until)
                   ELSE ParseYearMonthDay(until)
       IN  IF interval \notin {"monthly", "weekly"}
                \/ start.err # nil \/ stop.err # nil
           THEN /\ dpc' = "done"
                /\ UNCHANGED <<cur, end>>
           ELSE /\ dpc' = interval
                /\ cur' = start.t
                /\ end' = stop.t
    /\ UNCHANGED <<since, until, interval, generated>>

\* One iteration of the loop of generateMonthly
MonthlyStep ==
    /\ dpc = "monthly"
    /\ LoopContinues(cur, end)
    /\ generated' = Append(generated, EndOfMonth(cur))
    /\ cur' = NextMonth(cur)
    /\ UNCHANGED <<since, until, interval, dpc, end>>

\* One iteration of the loop of generateWeekly
WeeklyStep ==
    /\ dpc = "weekly"
    /\ LoopContinues(cur, end)
    /\ generated' = Append(generated, EndOfDay(cur))
    /\ cur' = NextWeek(cur)
    /\ UNCHANGED <<since, until, interval, dpc, end>>

\* return dates
GenerateReturn ==
    /\ dpc \in {"monthly", "weekly"}
    /\ ~LoopContinues(cur, end)
    /\ dpc' = "done"
    /\ UNCHANGED <<since, until, interval, cur, end, generated>>

(***************************************************************************)
(* The trends task: the process closure runTrends hands to RunTrends       *)
(***************************************************************************)
\* history.FormatPeriod(d, interval): the text "2006-01", "2006-01-02" or
\* RFC 3339 of d, as the sequence of the numbers printed
FormatPeriod(d, iv) ==
    CASE iv = "monthly" -> <<Year(d), Month(d)>>
      [] iv = "weekly" -> <<Year(d), Month(d), Day(d)>>
      [] OTHER -> <<Year(d), Month(d), Day(d), d.sec \div 3600,
                    (d.sec % 3600) \div 60, d.sec % 60>>

\* dates := history.GenerateDates(since, until, interval) for n periods
\* ending in 2025: instants as MonthlyStep and WeeklyStep append them
TaskDates(iv, n) ==
    IF iv = "monthly"
    THEN [i \in 1..n |-> EndOfMonth(Date(2025, i - n + 2, 1, 0, 0, 0))]
    ELSE [i \in 1..n |-> EndOfDay(Date(2025, 1, 7 * (i - n) + 10, 0, 0, 0))]

\* The maps FindCommits can return for the dates: once a date has a commit
\* at or before it, every later date has one too
CommitMaps(ds) ==
    {[d \in {ds[i] : i \in p..Len(ds)} |-> 1] : p \in 1..(Len(ds) + 1)}

\* The step of the loop body at which a period stops: no commit for the
\* date, Checkout fails, Analyze fails, or none ("ok")
StepOutcomes(present) ==
    IF present THEN {"checkout", "analyze", "ok"} ELSE {"absent"}
\* snapshots[periods[i]] = stats is reached
StoresSnapshotDespiteAnalyze(how) == how \in {"ok", "analyze"}
StoresSnapshot(how) == how = "ok"
Stats(hash) == [Repository |-> "slug", commit |-> hash]

TaskIdle ==
    /\ tinterval = "monthly"
    /\ tdates = <<>>
    /\ periods = <<>>
    /\ tpc = "entry"
    /\ commitMap = EmptyMap
    /\ ti = 1
    /\ snapshots = <<>>
    /\ stepLog = <<>>
    /\ tret = [hasMap |-> FALSE, err |-> nil]

\* The closure is called for one repository; dates and periods were
\* computed by runTrends and are not empty
TaskStart ==
    /\ tinterval \in {"monthly", "weekly"}
    /\ \E n \in 1..MaxPeriods : tdates = TaskDates(tinterval, n)
    /\ periods = [i \in 1..Len(tdates) |-> FormatPeriod(tdates[i], tinterval)]
    /\ tpc = "entry"
    /\ commitMap = EmptyMap
    /\ ti = 1
    /\ snapshots = <<>>
    /\ stepLog = <<>>
    /\ tret = [hasMap |-> FALSE, err |-> nil]

\* gitRepo, dir, cleanup, err := cloner.CloneFull(ctx, repo.CloneURL)
TaskClone ==
    /\ tpc = "entry"
    /\ \E err \in {nil, "clone failed"} :
        IF err # nil
        THEN /\ tret' = [hasMap |-> FALSE, err |-> err]
             /\ tpc' = "done"
        ELSE /\ tpc' = "find"
             /\ UNCHANGED tret
    /\ UNCHANGED <<tinterval, tdates, periods, commitMap, ti, snapshots,
                   stepLog>>

\* commitMap, err := history.FindCommits(gitRepo, dates)
TaskFindCommits ==
    /\ tpc = "find"
    /\ \/ /\ tret' = [hasMap |-> FALSE, err |-> "find commits"]
          /\ tpc' = "done"
          /\ UNCHANGED commitMap
       \/ /\ commitMap' \in CommitMaps(tdates)
          /\ tpc' = "loop"
          /\ UNCHANGED tret
    /\ UNCHANGED <<tinterval, tdates, periods, ti, snapshots, stepLog>>

\* One iteration of for i, date := range dates
TaskPeriod ==
    /\ tpc = "loop"
    /\ ti <= Len(tdates)
    /\ \E how \in StepOutcomes(tdates[ti] \in DOMAIN commitMap) :
        /\ snapshots' =
            IF StoresSnapshot(how)
            THEN [x \in DOMAIN snapshots \cup {periods[ti]} |->
                    IF x = periods[ti] THEN Stats(commitMap[tdates[ti]])
                    ELSE snapshots[x]]
            ELSE snapshots
        /\ stepLog' = Append(stepLog, how)
    /\ ti' = ti + 1
    /\ UNCHANGED <<tinterval, tdates, periods, tpc, commitMap, tret>>

\* return snapshots, nil
TaskReturn ==
    /\ tpc = "loop"
    /\ ti > Len(tdates)
    /\ tret' = [hasMap |-> TRUE, err |-> nil]
    /\ tpc' = "done"
    /\ UNCHANGED <<tinterval, tdates, periods, commitMap, ti, snapshots,
                   stepLog>>

(***************************************************************************)
(* health.AnalyzeDetails and aiestimate.Estimate: the per-commit stats     *)
(* fan-out, and the closures of runAnalyze that call them                  *)
(***************************************************************************)
\* const statsConcurrency of package health (5), and of the packages
\* aiestimate and churn (10)
statsConcurrency(fn) == IF fn = "details" THEN 5 ELSE 10
Windows == {"0-6mo", "6-12mo", "12mo+"}
\* The commits whose stats are fetched: all commits given to AnalyzeDetails,
\* each in the window commitWindow puts it in; the flagged commits of Estimate
RECURSIVE StatCommits(_, _)
StatCommits(fn, n) ==
    IF n = 0 THEN {<<>>}
    ELSE StatCommits(fn, n - 1) \cup
         {Append(l, [Hash |-> Len(l) + 1, window |-> w]) :
            l \in {x \in StatCommits(fn, n - 1) : Len(x) = n - 1},
            w \in IF fn = "details" THEN {"0-6mo", "12mo+"} ELSE {"0-6mo"}}
\* What lister.CommitStats(ctx, repo, hash) can return for commit cm
CommitStatsReturns(cm) ==
    {[additions |-> 2 * cm.Hash + 1, deletions |-> cm.Hash, err |-> nil],
     [additions |-> 0, deletions |-> 0, err |-> "stats failed"]}
\* The zero value of statResult and of commitDetail
ZeroResult == [additions |-> 0, deletions |-> 0, err |-> nil]
\* fmt.Sprintf("CommitStats %s: %v", hash, err)
Message(hash, err) == [hash |-> hash, err |-> err]

\* if err != nil (AnalyzeDetails), if d.err != nil (Estimate)
RecordsErrorNever(r) == FALSE
RecordsError(r) == r.err # nil

RECURSIVE SumSeq(_)
SumSeq(q) == IF q = <<>> THEN 0 ELSE q[1] + SumSeq(Tail(q))

\* AnalyzeDetails after wg.Wait: churn per window from results, then the
\* windows with commits
WindowChurn(cs, res, w) ==
    LET in(i) == cs[i].window = w
        adds == SumSeq([i \in 1..Len(cs) |-> IF in(i) THEN res[i].additions ELSE 0])
        dels == SumSeq([i \in 1..Len(cs) |-> IF in(i) THEN res[i].deletions ELSE 0])
    IN  [Commits |-> Cardinality({i \in 1..Len(cs) : in(i)}),
         Additions |-> adds, Deletions |-> dels, NetChurn |-> adds - dels]
DetailsResult(cs, res) ==
    [ChurnByWindow |->
        [w \in {x \in Windows : WindowChurn(cs, res, x).Commits > 0} |->
            WindowChurn(cs, res, w)]]

\* Estimate after wg.Wait: the loop over flagged
RECURSIVE EstimateMessages(_, _, _)
EstimateMessages(cs, res, k) ==
    IF k = 0 THEN <<>>
    ELSE IF RecordsError(res[k])
    THEN Append(EstimateMessages(cs, res, k - 1), Message(cs[k].Hash, res[k].err))
    ELSE EstimateMessages(cs, res, k - 1)
RECURSIVE EstimateDetails(_, _, _)
EstimateDetails(cs, res, k) ==
    IF k = 0 THEN <<>>
    ELSE IF RecordsError(res[k]) THEN EstimateDetails(cs, res, k - 1)
    ELSE Append(EstimateDetails(cs, res, k - 1),
                [Hash |-> cs[k].Hash, Additions |-> res[k].additions,
                 Deletions |-> res[k].deletions])
EstimateResult(cs, res) ==
    [AICommits |-> Len(cs),
     AIAdditions |-> SumSeq([i \in 1..Len(cs) |->
                        IF RecordsError(res[i]) THEN 0 ELSE res[i].additions]),
     Details |-> EstimateDetails(cs, res, Len(cs))]

\* churn.Analyze after wg.Wait: every fetched commit changes the one file of
\* the repository; the changes per path, then the paths by changes
ChurnResult(cs, res) ==
    LET ok == {i \in 1..Len(cs) : res[i].err = nil /\ res[i].additions > 0}
    IN  [TotalCommits |-> Len(cs),
         TopFiles |->
            IF ok = {} THEN <<>>
            ELSE <<[Path |-> "f", Changes |-> Cardinality(ok),
                    Additions |-> SumSeq([i \in 1..Len(cs) |->
                        IF i \in ok THEN res[i].additions ELSE 0]),
                    Deletions |-> SumSeq([i \in 1..Len(cs) |->
                        IF i \in ok THEN res[i].deletions ELSE 0])]>>]

NoReturn == [hasResult |-> FALSE, result |-> <<>>, partial |-> <<>>, err |-> nil]
NoOutcome == [hasStats |-> FALSE, attached |-> <<>>, err |-> nil]

StatsIdle ==
    /\ sfn = "details"
    /\ scommits = <<>>
    /\ sctxDone = FALSE
    /\ spc = "entry"
    /\ si = 1
    /\ ssem = 0
    /\ swg = 0
    /\ wpc = <<>>
    /\ wret = <<>>
    /\ sresults = <<>>
    /\ partialErrors = <<>>
    /\ sret = NoReturn
    /\ diagErrors = <<>>
    /\ outcome = NoOutcome

\* A call of the closure's function for one repository
StatsStart ==
    /\ sfn \in {"details", "estimate"}
    /\ scommits \in StatCommits(sfn, MaxStatCommits)
    /\ sctxDone = FALSE
    /\ spc = "entry"
    /\ si = 1
    /\ ssem = 0
    /\ swg = 0
    /\ wpc = [i \in 1..Len(scommits) |-> "none"]
    /\ wret = [i \in 1..Len(scommits) |-> ZeroResult]
    /\ sresults = [i \in 1..Len(scommits) |-> ZeroResult]
    /\ partialErrors = <<>>
    /\ sret = NoReturn
    /\ diagErrors = <<>>
    /\ outcome = NoOutcome

\* AnalyzeDetails: if len(commits) == 0 return empty details;
\* Estimate: commits, err := cl.ListCommits(...), return nil, nil, err
StatsEnter ==
    /\ spc = "entry"
    /\ \E listErr \in IF sfn \in {"estimate", "churn"}
                      THEN {nil, "list commits"} ELSE {nil} :
        IF listErr # nil
        THEN /\ sret' = [NoReturn EXCEPT !.err = listErr]
             /\ spc' = "returned"
        ELSE IF sfn = "details" /\ scommits = <<>>
        THEN /\ sret' = [NoReturn EXCEPT !.hasResult = TRUE,
                                         !.result = DetailsResult(<<>>, <<>>)]
             /\ spc' = "returned"
        ELSE /\ spc' = "loop"
             /\ UNCHANGED sret
    /\ UNCHANGED <<sfn, scommits, sctxDone, si, ssem, swg, wpc, wret, sresults,
                   partialErrors, diagErrors, outcome>>

\* for i, c := range ...: the range test and if ctx.Err() != nil { break }
StatsLoopCheck ==
    /\ spc = "loop"
    /\ spc' = IF si > Len(scommits) \/ sctxDone THEN "wait" ELSE "send"
    /\ UNCHANGED <<sfn, scommits, sctxDone, si, ssem, swg, wpc, wret, sresults,
                   partialErrors, sret, diagErrors, outcome>>

\* sem <- struct{}{}; wg.Add(1); go func(idx, hash)
StatsDispatch ==
    /\ spc = "send"
    /\ ssem < statsConcurrency(sfn)
    /\ ssem' = ssem + 1
    /\ swg' = swg + 1
    /\ wpc' = [wpc EXCEPT ![si] = "call"]
    /\ si' = si + 1
    /\ spc' = "loop"
    /\ UNCHANGED <<sfn, scommits, sctxDone, wret, sresults, partialErrors, sret,
                   diagErrors, outcome>>

\* adds, dels, err := lister.CommitStats(ctx, repo, hash)
StatsCall(i) ==
    /\ i \in DOMAIN wpc
    /\ wpc[i] = "call"
    /\ wret' \in {[wret EXCEPT ![i] = r] : r \in CommitStatsReturns(scommits[i])}
    /\ wpc' = [wpc EXCEPT ![i] = "record"]
    /\ UNCHANGED <<sfn, scommits, sctxDone, spc, si, ssem, swg, sresults,
                   partialErrors, sret, diagErrors, outcome>>

\* AnalyzeDetails: under mu, append the message or store results[idx];
\* Estimate: details[idx] = commitDetail{...}
StatsRecord(i) ==
    /\ i \in DOMAIN wpc
    /\ wpc[i] = "record"
    /\ IF sfn = "details"
       THEN IF RecordsError(wret[i])
            THEN /\ partialErrors' =
                        Append(partialErrors, Message(scommits[i].Hash, wret[i].err))
                 /\ UNCHANGED sresults
            ELSE /\ sresults' = [sresults EXCEPT ![i] =
                        [additions |-> wret[i].additions,
                         deletions |-> wret[i].deletions, err |-> nil]]
                 /\ UNCHANGED partialErrors
       ELSE /\ sresults' = [sresults EXCEPT ![i] = wret[i]]
            /\ UNCHANGED partialErrors
    /\ wpc' = [wpc EXCEPT ![i] = "exit"]
    /\ UNCHANGED <<sfn, scommits, sctxDone, spc, si, ssem, swg, wret, sret,
                   diagErrors, outcome>>

\* The deferred calls: <-sem, then wg.Done()
StatsExit(i) ==
    /\ i \in DOMAIN wpc
    /\ wpc[i] = "exit"
    /\ ssem' = ssem - 1
    /\ swg' = swg - 1
    /\ wpc' = [wpc EXCEPT ![i] = "gone"]
    /\ UNCHANGED <<sfn, scommits, sctxDone, spc, si, wret, sresults,
                   partialErrors, sret, diagErrors, outcome>>

\* wg.Wait(), the sums, and the return of (result, partialErrors, nil)
StatsFold ==
    /\ spc = "wait"
    /\ swg = 0
    /\ sret' = IF sfn = "details"
               THEN [hasResult |-> TRUE,
                     result |-> DetailsResult(scommits, sresults),
                     partial |-> partialErrors, err |-> nil]
               ELSE IF sfn = "churn"
               THEN [hasResult |-> TRUE,
                     result |-> ChurnResult(scommits, sresults),
                     partial |-> <<>>, err |-> nil]
               ELSE [hasResult |-> TRUE,
                     result |-> EstimateResult(scommits, sresults),
                     partial |-> EstimateMessages(scommits, sresults, Len(scommits)),
                     err |-> nil]
    /\ spc' = "returned"
    /\ UNCHANGED <<sfn, scommits, sctxDone, si, ssem, swg, wpc, wret, sresults,
                   partialErrors, diagErrors, outcome>>

\* The closure of runAnalyze: under diagMu one errorEntry per partial error,
\* then the RepoStats it returns to the worker pool
CallerRecord ==
    /\ spc = "returned"
    /\ diagErrors' = diagErrors \o
            [k \in 1..Len(sret.partial) |->
                [Category |-> IF sfn = "details" THEN "health-details"
                              ELSE "ai-estimate-detail",
                 Repo |-> "slug", Message |-> sret.partial[k]]]
    /\ outcome' = IF sret.err = nil
                  THEN [hasStats |-> TRUE, attached |-> sret.result, err |-> nil]
                  ELSE IF sfn = "details"
                  THEN [hasStats |-> TRUE, attached |-> <<>>, err |-> nil]
                  ELSE [hasStats |-> FALSE, attached |-> <<>>, err |-> sret.err]
    /\ spc' = "recorded"
    /\ UNCHANGED <<sfn, scommits, sctxDone, si, ssem, swg, wpc, wret, sresults,
                   partialErrors, sret>>

\* The context of the run is canceled
StatsCancel ==
    /\ ~sctxDone
    /\ spc \in {"loop", "send", "wait"}
    /\ sctxDone' = TRUE
    /\ UNCHANGED <<sfn, scommits, spc, si, ssem, swg, wpc, wret, sresults,
                   partialErrors, sret, diagErrors, outcome>>

(***************************************************************************)
(* The per-commit fan-out of churn.Analyze, health.AnalyzeDetails and      *)
(* aiestimate.Estimate with more commits than statsConcurrency, each       *)
(* goroutine taken from the return of its call to its exit in one step     *)
(***************************************************************************)
\* The commit list of a repository with n commits, all in the first window
UniformCommits(n) == [k \in 1..n |-> [Hash |-> k, window |-> "0-6mo"]]

\* The lister of that repository: among the returns CommitStats can give,
\* the stats for a commit with an odd hash and the error for an even one
ListerReturn(cm) ==
    CHOOSE r \in CommitStatsReturns(cm) : (r.err = nil) <=> (cm.Hash % 2 = 1)

FanOutIdle == lateCalls = 0

\* A call of Analyze, AnalyzeDetails or Estimate for a repository with more
\* commits than the gate has slots
FanOutStart ==
    /\ sfn \in {"churn", "details", "estimate"}
    /\ scommits = UniformCommits(statsConcurrency(sfn) + MaxOverflow)
    /\ sctxDone = FALSE
    /\ spc = "entry"
    /\ si = 1
    /\ ssem = 0
    /\ swg = 0
    /\ wpc = [i \in 1..Len(scommits) |-> "none"]
    /\ wret = [i \in 1..Len(scommits) |-> ZeroResult]
    /\ sresults = [i \in 1..Len(scommits) |-> ZeroResult]
    /\ partialErrors = <<>>
    /\ sret = NoReturn
    /\ diagErrors = <<>>
    /\ outcome = NoOutcome
    /\ lateCalls = 0

\* results[idx] = ... : the slice with the goroutine's own element replaced
StoreAtFirst(res, i, r) == [res EXCEPT ![1] = r]
StoreAtIndex(res, i, r) == [res EXCEPT ![i] = r]

\* The goroutine of commit i from the return of its call to its end: the
\* result is stored (AnalyzeDetails: or the message is appended), then the
\* deferred calls run <-sem and wg.Done()
StatsRun(i) ==
    /\ i \in DOMAIN wpc
    /\ wpc[i] = "call"
    /\ LET r == ListerReturn(scommits[i])
       IN
        /\ wret' = [wret EXCEPT ![i] = r]
        /\ IF sfn = "details" /\ RecordsError(r)
           THEN /\ partialErrors' =
                        Append(partialErrors, Message(scommits[i].Hash, r.err))
                /\ UNCHANGED sresults
           ELSE /\ sresults' = StoreAtIndex(sresults, i, r)
                /\ UNCHANGED partialErrors
    /\ ssem' = ssem - 1
    /\ swg' = swg - 1
    /\ wpc' = [wpc EXCEPT ![i] = "gone"]
    /\ UNCHANGED <<sfn, scommits, sctxDone, spc, si, sret, diagErrors, outcome>>

\* StatsDispatch, counting the calls dispatched after the cancellation
FanOutDispatch ==
    /\ StatsDispatch
    /\ lateCalls' = IF sctxDone THEN lateCalls + 1 ELSE lateCalls

(***************************************************************************)
(* health.Classify and health.ClassifyFromCommits                          *)
(***************************************************************************)
secondsPerDay == 24 * 60 * 60

\* now.Sub(lastCommitDate): the duration in seconds. Both instants are
\* within a few years of each other, far from the range of time.Duration.
Sub(t, u) == (t.day - u.day) * secondsPerDay + (t.sec - u.sec)

\* int(d.Hours() / 24): the conversion to int truncates toward zero
DaysOf(d) ==
    IF d >= 0 THEN d \div secondsPerDay ELSE 0 - ((0 - d) \div secondsPerDay)

\* lastCommitDate.UTC().Format(time.RFC3339): the numbers printed; the empty
\* string prints none
FormatRFC3339(t) ==
    <<Year(t), Month(t), Day(t), t.sec \div 3600, (t.sec % 3600) \div 60,
      t.sec % 60>>
EmptyString == <<>>

\* case days < ActiveThresholdDays
IsActiveInclusive(n) == n <= ActiveThresholdDays
IsActive(n) == n < ActiveThresholdDays

\* case days < MaintainedThresholdDays
IsMaintained(n) == n < MaintainedThresholdDays

\* func Classify(lastCommitDate, now time.Time) *model.RepoHealth
Classify(last, at) ==
    LET d0 == DaysOf(Sub(at, last))
        d == IF d0 < 0 THEN 0 ELSE d0
        category == CASE IsActive(d) -> "active"
                      [] IsMaintained(d) -> "maintained"
                      [] OTHER -> "abandoned"
    IN  [Category |-> category,
         LastCommitDate |-> FormatRFC3339(last),
         DaysSinceCommit |-> d]

\* &model.RepoHealth{Category: model.HealthAbandoned, LastCommitDate: "",
\*                   DaysSinceCommit: -1}
NoCommitHealth ==
    [Category |-> "abandoned", LastCommitDate |-> EmptyString,
     DaysSinceCommit |-> -1]

\* if c.Date.After(latest)
IsNewerNever(t, u) == FALSE
IsNewer(t, u) == TimeAfter(t, u)

\* latest.IsZero()
IsZero(t) == t = ZeroTime

\* The now of the calls: the instant of the tests, and noon of that day
Nows == {Date(2026, 2, 23, 0, 0, 0), Date(2026, 2, 23, 12, 0, 0)}

\* Commit dates around the thresholds, counted back from the midnight of
\* the tests with now.AddDate(0, 0, -daysAgo): on the day, one second before
\* and after the two thresholds, and two dates in the future
CommitDates ==
    LET midnight == Date(2026, 2, 23, 0, 0, 0)
        ago(n) == AddDate(midnight, 0, 0, 0 - n)
    IN  {ago(n) : n \in {0, 10, 179, 180, 364, 365, 366}}
        \cup {Time(ago(n).day, 1) : n \in {180, 365}}
        \cup {Time(ago(n).day - 1, secondsPerDay - 1) : n \in {180, 365}}
        \cup {Time(midnight.day, 1), Time(midnight.day + 2, 0),
              Time(midnight.day, 12 * 3600 + 1)}

\* Lists of at most n commit dates; a commit whose date the provider could
\* not parse carries the zero time
CommitLists(n) ==
    UNION {[1..k -> CommitDates \cup {ZeroTime}] : k \in 0..n}

NoHealth == [Category |-> "", LastCommitDate |-> EmptyString, DaysSinceCommit |-> 0]

\* No call of the health package in progress
HealthIdle ==
    /\ hfn = "none"
    /\ lastCommitDate = ZeroTime
    /\ hcommits = <<>>
    /\ now = ZeroTime
    /\ hpc = "idle"
    /\ hi = 0
    /\ latest = ZeroTime
    /\ health = NoHealth

\* State at a call of Classify or of ClassifyFromCommits
HealthStart ==
    /\ hfn \in {"Classify", "ClassifyFromCommits"}
    /\ now \in Nows
    /\ IF hfn = "Classify"
       THEN lastCommitDate \in CommitDates /\ hcommits = <<>>
       ELSE lastCommitDate = ZeroTime /\ hcommits \in CommitLists(MaxHealthCommits)
    /\ hpc = "call"
    /\ hi = 0
    /\ latest = ZeroTime
    /\ health = NoHealth

\* A direct call Classify(lastCommitDate, now)
ClassifyCall ==
    /\ hfn = "Classify"
    /\ hpc = "call"
    /\ health' = Classify(lastCommitDate, now)
    /\ hpc' = "done"
    /\ UNCHANGED <<hfn, lastCommitDate, hcommits, now, hi, latest>>

\* if len(commits) == 0 { return ... }; latest := commits[0].Date
FromCommitsEnter ==
    /\ hfn = "ClassifyFromCommits"
    /\ hpc = "call"
    /\ IF Len(hcommits) = 0
       THEN /\ health' = NoCommitHealth
            /\ hpc' = "done"
            /\ UNCHANGED <<hi, latest>>
       ELSE /\ latest' = hcommits[1]
            /\ hi' = 2
            /\ hpc' = "scan"
            /\ UNCHANGED health
    /\ UNCHANGED <<hfn, lastCommitDate, hcommits, now>>

\* for _, c := range commits[1:] { if c.Date.After(latest) { latest = c.Date } }
ScanCommit ==
    /\ hpc = "scan"
    /\ hi <= Len(hcommits)
    /\ latest' = IF IsNewer(hcommits[hi], latest) THEN hcommits[hi] ELSE latest
    /\ hi' = hi + 1
    /\ UNCHANGED <<hfn, lastCommitDate, hcommits, now, hpc, health>>

\* if latest.IsZero() { return ... }; return Classify(latest, now)
FromCommitsReturn ==
    /\ hpc = "scan"
    /\ hi > Len(hcommits)
    /\ health' = IF IsZero(latest) THEN NoCommitHealth ELSE Classify(latest, now)
    /\ hpc' = "done"
    /\ UNCHANGED <<hfn, lastCommitDate, hcommits, now, hi, latest>>

(***************************************************************************)
(* Specifications                                                          *)
(***************************************************************************)
RunnerNext ==
    \/ Enter /\ UNCHANGED exceptRunner
    \/ LoopCheck /\ UNCHANGED exceptRunner
    \/ Dispatch /\ UNCHANGED exceptRunner
    \/ Wait /\ UNCHANGED exceptRunner
    \/ Cancel /\ UNCHANGED exceptRunner
    \/ \E r \in Repos : ProcessCall(r) /\ UNCHANGED exceptRunner
    \/ \E r \in Repos : ProcessReturn(r) /\ UNCHANGED exceptRunner
    \/ \E r \in Repos : Lock(r) /\ UNCHANGED exceptRunner
    \/ \E r \in Repos : AppendUnlock(r) /\ UNCHANGED exceptRunner
    \/ \E r \in Repos : Notify(r) /\ UNCHANGED exceptRunner
    \/ \E r \in Repos : ReleaseSem(r) /\ UNCHANGED exceptRunner
    \/ \E r \in Repos : WgDone(r) /\ UNCHANGED exceptRunner

RunnerInit ==
    /\ RunnerStart
    /\ TransportIdle /\ ResolveIdle /\ DatesIdle /\ TaskIdle /\ StatsIdle
    /\ HealthIdle /\ FanOutIdle

RunnerSpec == RunnerInit /\ [][RunnerNext]_vars

\* The steps of the goroutine that called RunTrends
RunnerMain ==
    (Enter \/ LoopCheck \/ Dispatch \/ Wait) /\ UNCHANGED exceptRunner

\* The steps of the goroutine started for repository r
RunnerGoroutine(r) ==
    /\ \/ ProcessCall(r) \/ ProcessReturn(r) \/ Lock(r) \/ AppendUnlock(r)
       \/ Notify(r) \/ ReleaseSem(r) \/ WgDone(r)
    /\ UNCHANGED exceptRunner

\* A step of any goroutine of the run
RunnerProgress == RunnerMain \/ \E r \in Repos : RunnerGoroutine(r)

\* While some goroutine can take a step, the Go scheduler runs one; every
\* call of process returns and every call of onProgress returns. This is
\* weaker than fairness to each goroutine. Cancellation of the context is
\* left to the environment: it may or may not happen.
RunnerFairness == WF_vars(RunnerProgress)

RunnerLiveSpec == RunnerInit /\ [][RunnerNext]_vars /\ RunnerFairness

TransportNext ==
    \/ RoundTripEnter /\ UNCHANGED exceptTransport
    \/ Tick /\ UNCHANGED exceptTransport
    \/ PaceSkip /\ UNCHANGED exceptTransport
    \/ PaceCanceled /\ UNCHANGED exceptTransport
    \/ PaceToken /\ UNCHANGED exceptTransport
    \/ OtherAttempt /\ UNCHANGED exceptTransport
    \/ BaseRoundTrip /\ UNCHANGED exceptTransport
    \/ TimerFire /\ UNCHANGED exceptTransport
    \/ BackoffCanceled /\ UNCHANGED exceptTransport
    \/ BackoffElapsed /\ UNCHANGED exceptTransport
    \/ CancelRequest /\ UNCHANGED exceptTransport

TransportInit ==
    /\ TransportStart
    /\ RunnerIdle /\ ResolveIdle /\ DatesIdle /\ TaskIdle /\ StatsIdle
    /\ HealthIdle /\ FanOutIdle

TransportSpec == TransportInit /\ [][TransportNext]_vars

ResolveNext ==
    \/ OpenLog /\ UNCHANGED exceptResolve
    \/ CollectCommits /\ UNCHANGED exceptResolve
    \/ ResolveDate /\ UNCHANGED exceptResolve
    \/ ResolveReturn /\ UNCHANGED exceptResolve

ResolveInit ==
    /\ ResolveStart
    /\ RunnerIdle /\ TransportIdle /\ DatesIdle /\ TaskIdle /\ StatsIdle
    /\ HealthIdle /\ FanOutIdle

ResolveSpec == ResolveInit /\ [][ResolveNext]_vars

DatesNext ==
    \/ GenerateDatesCall /\ UNCHANGED exceptDates
    \/ MonthlyStep /\ UNCHANGED exceptDates
    \/ WeeklyStep /\ UNCHANGED exceptDates
    \/ GenerateReturn /\ UNCHANGED exceptDates

DatesInit ==
    /\ DatesStart
    /\ RunnerIdle /\ TransportIdle /\ ResolveIdle /\ TaskIdle /\ StatsIdle
    /\ HealthIdle /\ FanOutIdle

DatesSpec == DatesInit /\ [][DatesNext]_vars

TaskNext ==
    \/ TaskClone /\ UNCHANGED exceptTask
    \/ TaskFindCommits /\ UNCHANGED exceptTask
    \/ TaskPeriod /\ UNCHANGED exceptTask
    \/ TaskReturn /\ UNCHANGED exceptTask

TaskInit ==
    /\ TaskStart
    /\ RunnerIdle /\ TransportIdle /\ ResolveIdle /\ DatesIdle /\ StatsIdle
    /\ HealthIdle /\ FanOutIdle

TaskSpec == TaskInit /\ [][TaskNext]_vars

StatsNext ==
    \/ StatsEnter /\ UNCHANGED exceptStats
    \/ StatsLoopCheck /\ UNCHANGED exceptStats
    \/ StatsDispatch /\ UNCHANGED exceptStats
    \/ StatsFold /\ UNCHANGED exceptStats
    \/ CallerRecord /\ UNCHANGED exceptStats
    \/ StatsCancel /\ UNCHANGED exceptStats
    \/ \E i \in 1..MaxStatCommits : StatsCall(i) /\ UNCHANGED exceptStats
    \/ \E i \in 1..MaxStatCommits : StatsRecord(i) /\ UNCHANGED exceptStats
    \/ \E i \in 1..MaxStatCommits : StatsExit(i) /\ UNCHANGED exceptStats

StatsInit ==
    /\ StatsStart
    /\ RunnerIdle /\ TransportIdle /\ ResolveIdle /\ DatesIdle /\ TaskIdle
    /\ HealthIdle /\ FanOutIdle

StatsSpec == StatsInit /\ [][StatsNext]_vars

HealthNext ==
    \/ ClassifyCall /\ UNCHANGED exceptHealth
    \/ FromCommitsEnter /\ UNCHANGED exceptHealth
    \/ ScanCommit /\ UNCHANGED exceptHealth
    \/ FromCommitsReturn /\ UNCHANGED exceptHealth

HealthInit ==
    /\ HealthStart
    /\ RunnerIdle /\ TransportIdle /\ ResolveIdle /\ DatesIdle /\ TaskIdle
    /\ StatsIdle /\ FanOutIdle

HealthSpec == HealthInit /\ [][HealthNext]_vars

FanOutNext ==
    \/ StatsEnter /\ UNCHANGED lateCalls /\ UNCHANGED exceptFanOut
    \/ StatsLoopCheck /\ UNCHANGED lateCalls /\ UNCHANGED exceptFanOut
    \/ FanOutDispatch /\ UNCHANGED exceptFanOut
    \/ \E i \in 1..(statsConcurrency("churn") + MaxOverflow) :
            StatsRun(i) /\ UNCHANGED lateCalls /\ UNCHANGED exceptFanOut
    \/ StatsFold /\ UNCHANGED lateCalls /\ UNCHANGED exceptFanOut
    \/ StatsCancel /\ UNCHANGED lateCalls /\ UNCHANGED exceptFanOut

FanOutInit ==
    /\ FanOutStart
    /\ RunnerIdle /\ TransportIdle /\ ResolveIdle /\ DatesIdle /\ TaskIdle
    /\ HealthIdle

FanOutSpec == FanOutInit /\ [][FanOutNext]_vars

(***************************************************************************)
(* Properties of worker.RunTrends                                          *)
(***************************************************************************)
\* Repositories of the input slice
InputRepos == {repos[k] : k \in 1..Len(repos)}
\* Tasks dispatched so far (the go statement was executed)
Dispatched == {r \in Repos : gpc[r] # "none"}
\* Invocations of process that are running now
ActiveCalls == {r \in Repos : gpc[r] = "process"}
\* Positions of the outcomes of repository r in a result slice
OutcomesOf(res, r) == {k \in 1..Len(res) : res[k].Repo = r}

\* C1: completeness. When RunTrends returns in a run whose context was never
\* canceled, the returned slice has exactly len(repos) outcomes and every
\* input repository is the Repo of exactly one of them.
C1_Completeness ==
    (pc = "returned" /\ ~ctxDone) =>
        /\ Len(returned) = Len(repos)
        /\ \A r \in InputRepos : Cardinality(OutcomesOf(returned, r)) = 1
C1_Witness ==
    /\ pc = "returned" /\ ~ctxDone
    /\ Len(repos) = 2 /\ Len(returned) = 2
    /\ \E k \in 1..Len(returned) : returned[k].Err # nil
    /\ \E k \in 1..Len(returned) : returned[k].Err = nil

\* C2: bounded concurrency. For every limit C >= 1 the number of invocations
\* of process that are active at the same time never exceeds C.
C2_BoundedConcurrency ==
    concurrency >= 1 => Cardinality(ActiveCalls) <= concurrency
C2_Witness ==
    /\ concurrency = 1
    /\ Cardinality(ActiveCalls) = 1
    /\ sem = 1
    /\ pc = "send"

\* C3: progress monotonicity. In a run without cancellation the k-th call
\* received by the progress sink carries completedCount k: the sink sees
\* 1, 2, ..., N in this order, without gap, duplicate or reordering.
C3_ProgressInOrder ==
    ~ctxDone => \A k \in 1..Len(sink) : sink[k].completed = k

\* C4 (as claimed): once the context is canceled after K dispatches, no
\* further task is started: the number of dispatched tasks stays K.
C4_NoDispatchAfterCancel ==
    ctxDone => late = 0
\* C4 (amended): after the context is canceled with K tasks dispatched, at
\* most one further task is dispatched (the one whose cancellation check had
\* already passed, e.g. while the loop was blocked on the gate); and when
\* RunTrends returns every dispatched task has exactly one outcome in the
\* returned slice.
C4_AtMostOneDispatchAfterCancel ==
    ctxDone =>
        /\ late <= 1
        /\ pc = "returned" =>
            /\ Len(returned) = Cardinality(Dispatched)
            /\ \A r \in Dispatched : Cardinality(OutcomesOf(returned, r)) = 1
C4_Witness ==
    /\ ctxDone /\ pc = "returned"
    /\ late = 1
    /\ Cardinality(Dispatched) = 1
    /\ Len(repos) = 2
    /\ Len(returned) = 1

\* C5: join barrier. Once RunTrends has returned, no dispatched goroutine is
\* still running, every dispatched task has appended its outcome, and the
\* accumulator still equals the slice that was returned.
C5_JoinBarrier ==
    pc = "returned" =>
        /\ \A r \in Repos : gpc[r] \in {"none", "exit"}
        /\ \A r \in Dispatched : OutcomesOf(results, r) # {}
        /\ mu = 0
        /\ results = returned
C5_Witness ==
    /\ pc = "returned"
    /\ Cardinality(Dispatched) >= 2
    /\ Len(returned) >= 2

\* C6: failure isolation. An error returned by process is stored in that
\* repository's outcome with no snapshots; it does not abort the run: when
\* an uncanceled run returns, every input repository has the outcome that
\* its own call of process produced, also when other repositories failed.
C6_FailureIsolation ==
    /\ \A k \in 1..Len(results) :
        /\ results[k] = TrendsResult(results[k].Repo, fret[results[k].Repo])
        /\ results[k].Err # nil => results[k].Snapshots = NilMap
    /\ (pc = "returned" /\ ~ctxDone) =>
        \A r \in InputRepos :
            \E k \in 1..Len(returned) : returned[k] = TrendsResult(r, fret[r])
C6_Witness ==
    /\ pc = "returned" /\ ~ctxDone
    /\ Len(repos) >= 2
    /\ returned[1].Err # nil
    /\ returned[Len(returned)].Err = nil
    /\ returned[Len(returned)].Snapshots = Snapshots(returned[Len(returned)].Repo)

(***************************************************************************)
(* Properties of RateLimitTransport.RoundTrip                              *)
(***************************************************************************)
\* The delay in seconds a Retry-After value specifies; 0 when the value is
\* absent or is not a positive integer number of seconds.
SpecifiedSeconds(ra) ==
    CASE ra = <<"1">> -> 1
      [] ra = <<"3">> -> 3
      [] ra = <<"6", "0">> -> 60
      [] ra = <<"+", "2">> -> 2
      [] OTHER -> 0
DefaultSchedule == <<1, 2, 4, 8, 16>>
Min(a, b) == IF a < b THEN a ELSE b
\* RoundTrip is blocked in one of its two selects
InPacingWait == rpc = "pace" /\ limiter # NilChan
InBackoffWait == rpc = "backoff"

\* C7: retry bound. The base transport is called at most 6 times (5
\* retries); when the sixth response is again a 429, RoundTrip returns that
\* response with a nil error.
C7_RetryBound ==
    /\ baseCalls <= 6
    /\ attempt <= 5
    /\ (rpc = "done" /\ baseCalls = 6 /\ resp.err = nil
            /\ resp.status = StatusTooManyRequests) =>
        rret = [resp |-> resp, err |-> nil]
C7_Witness ==
    /\ rpc = "done"
    /\ baseCalls = 6
    /\ rret.err = nil
    /\ rret.resp.status = StatusTooManyRequests

\* C8 (as claimed): with a server-supplied delay the wait before the retry
\* that follows attempt a is min(serverSpecifiedDelay, 2^a) seconds.
C8_DelayIsMin ==
    (InBackoffWait /\ SpecifiedSeconds(resp.retryAfter) > 0) =>
        delay = Min(SpecifiedSeconds(resp.retryAfter), 2 ^ attempt)
\* C8 (amended): with a Retry-After that is a positive integer number of
\* seconds the wait is exactly that number of seconds, whether it is below
\* or above 2^a.
C8_DelayIsServerDelay ==
    (InBackoffWait /\ SpecifiedSeconds(resp.retryAfter) > 0) =>
        delay = SpecifiedSeconds(resp.retryAfter)
C8_Witness ==
    /\ InBackoffWait
    /\ attempt = 1
    /\ resp.retryAfter = <<"6", "0">>
    /\ delay = 60

\* C9: default schedule. Without a Retry-After header, or with one that is
\* not a positive integer number of seconds, the wait after attempt a is
\* 2^a seconds: 1, 2, 4, 8, 16 for the five retries.
C9_DefaultBackoff ==
    (InBackoffWait /\ SpecifiedSeconds(resp.retryAfter) = 0) =>
        /\ attempt \in 0..4
        /\ delay = DefaultSchedule[attempt + 1]
        /\ delay = 2 ^ attempt
C9_Witness ==
    /\ InBackoffWait
    /\ attempt = 4
    /\ resp.retryAfter = <<"0">>
    /\ delay = 16

\* C10 (as claimed): once the request's context is canceled while RoundTrip
\* is in the pacing wait or the backoff wait, RoundTrip leaves the wait only
\* by returning a nil response with the cancellation error, also when a
\* pacing token is available: no further attempt is issued.
C10_CancelAlwaysAborts ==
    [][((InPacingWait \/ InBackoffWait) /\ reqDone /\ rpc' # rpc) =>
            (rpc' = "done" /\ rret' = [resp |-> NilResponse, err |-> "context canceled"]
                /\ baseCalls' = baseCalls)]_vars
\* C10 (amended): when the context is canceled during the pacing wait and no
\* pacing token is buffered, or during the backoff wait and the timer has not
\* expired, RoundTrip leaves the wait only by returning a nil response with
\* the cancellation error and issues no further attempt; a cancellation error
\* is never returned together with a response.
C10_CancelAbortsUnlessOtherReady ==
    /\ [](rret.err = "context canceled" => (rpc = "done" /\ rret.resp = NilResponse))
    /\ [][(((InPacingWait /\ limiter = 0) \/ (InBackoffWait /\ ~timer))
                /\ reqDone /\ rpc' # rpc) =>
            (rpc' = "done" /\ rret' = [resp |-> NilResponse, err |-> "context canceled"]
                /\ baseCalls' = baseCalls)]_vars
C10_Witness ==
    /\ rpc = "done"
    /\ rret.err = "context canceled"
    /\ resp.status = StatusTooManyRequests
    /\ ~timer
    /\ baseCalls >= 2

\* Base-transport calls RoundTrip has started: those that returned and the
\* one in progress
StartedCalls == baseCalls + (IF rpc = "call" THEN 1 ELSE 0)

\* C11: retry until success. When the base transport answers 429 to the
\* first k attempts (0 <= k <= 5) and anything else without error to attempt
\* k+1, RoundTrip has returned that response with a nil error after exactly
\* k+1 base calls; a response other than 429 is never followed by a retry.
C11_RetryUntilSuccess ==
    /\ baseCalls <= throttled + 1
    /\ (baseCalls > 0 /\ resp.err = nil /\ resp.status # StatusTooManyRequests) =>
        /\ rpc = "done"
        /\ rret = [resp |-> resp, err |-> nil]
        /\ throttled \in 0..defaultMaxRetries
        /\ baseCalls = throttled + 1
C11_Witness ==
    /\ rpc = "done"
    /\ throttled = 2
    /\ baseCalls = 3
    /\ rret.err = nil
    /\ rret.resp.status = StatusOK

FindCommitsReturned == fpc = "done" /\ ferr = nil
TargetInstants == {dates[i] : i \in 1..Len(dates)}
\* Positions of the log whose author timestamp is at or before t
Qualifying(t) == {k \in 1..Len(log) : log[k].When <= t}
\* The author timestamp of the commit of the log with hash h
WhenOf(h) == log[CHOOSE k \in 1..Len(log) : log[k].Hash = h].When
SetMin(S) == CHOOSE x \in S : \A y \in S : x <= y

\* C13: presence. In the map FindCommits returns, a target instant is a key
\* iff some commit of the log has an author timestamp at or before it; the
\* keys are target instants only and every value is the hash of a commit of
\* the log, never the zero hash.
C13_Presence ==
    FindCommitsReturned =>
        /\ \A t \in TargetInstants : t \in DOMAIN result <=> Qualifying(t) # {}
        /\ DOMAIN result \subseteq TargetInstants
        /\ \A t \in DOMAIN result :
            /\ result[t] # ZeroHash
            /\ \E k \in 1..Len(log) : log[k].Hash = result[t]
C13_Witness ==
    /\ FindCommitsReturned
    /\ Len(dates) = 2
    /\ dates[1] \notin DOMAIN result
    /\ dates[2] \in DOMAIN result
    /\ WhenOf(result[dates[2]]) = dates[2]

\* C14 (as claimed): for every target instant present in the result no
\* commit of the log has an author timestamp that is at or before the
\* instant and later than the mapped commit's.
C14_LargestQualifying ==
    FindCommitsReturned =>
        \A t \in DOMAIN result :
            ~ \E k \in Qualifying(t) : log[k].When > WhenOf(result[t])

GregorianLeap(y) == y % 400 = 0 \/ (y % 4 = 0 /\ y % 100 # 0)
LastDayOfMonth(y, m) ==
    CASE m \in {1, 3, 5, 7, 8, 10, 12} -> 31
      [] m \in {4, 6, 9, 11} -> 30
      [] OTHER -> IF GregorianLeap(y) THEN 29 ELSE 28
Civil(y, m, d) == [y |-> y, m |-> m, d |-> d]
CivilLE(a, b) ==
    \/ a.y < b.y
    \/ a.y = b.y /\ a.m < b.m
    \/ a.y = b.y /\ a.m = b.m /\ a.d <= b.d
NextDay(a) ==
    IF a.d < LastDayOfMonth(a.y, a.m) THEN Civil(a.y, a.m, a.d + 1)
    ELSE IF a.m < 12 THEN Civil(a.y, a.m + 1, 1)
    ELSE Civil(a.y + 1, 1, 1)
RECURSIVE PlusDays(_, _)
PlusDays(a, n) == IF n = 0 THEN a ELSE PlusDays(NextDay(a), n - 1)
\* The days a, a + 7, a + 14, ... that do not exceed b
RECURSIVE EverySeventhDay(_, _)
EverySeventhDay(a, b) ==
    IF CivilLE(a, b) THEN <<a>> \o EverySeventhDay(PlusDays(a, 7), b) ELSE <<>>
ValidYearMonth(v) == v.layout = "ym" /\ v.m \in 1..12
ValidDay(v) ==
    v.layout = "ymd" /\ v.m \in 1..12 /\ v.d \in 1..LastDayOfMonth(v.y, v.m)
MonthIndex(y, m) == 12 * y + (m - 1)
EndOfDaySeconds == 23 * 3600 + 59 * 60 + 59
\* What a caller reads from the i-th returned instant
Observed(i) ==
    Civil(Year(generated[i]), Month(generated[i]), Day(generated[i]))
GenerateDatesReturned == dpc = "done"

\* C16: monthly generation. For valid year-month values since <= until the
\* result has exactly one instant for each month from since to until, in
\* order, each the last calendar day of its month at 23:59:59 UTC.
C16_Monthly ==
    (GenerateDatesReturned /\ interval = "monthly" /\ ValidYearMonth(since)
        /\ ValidYearMonth(until)
        /\ MonthIndex(since.y, since.m) <= MonthIndex(until.y, until.m)) =>
        LET first == MonthIndex(since.y, since.m)
            n == MonthIndex(until.y, until.m) - first + 1
        IN  /\ Len(generated) = n
            /\ \A i \in 1..n :
                LET y == (first + i - 1) \div 12
                    m == ((first + i - 1) % 12) + 1
                IN  /\ Observed(i) = Civil(y, m, LastDayOfMonth(y, m))
                    /\ generated[i].sec = EndOfDaySeconds
C16_Witness ==
    /\ GenerateDatesReturned
    /\ interval = "monthly"
    /\ since = YearMonth(2025, 1)
    /\ until = YearMonth(2025, 3)
    /\ Len(generated) = 3
    /\ Observed(1) = Civil(2025, 1, 31)
    /\ Observed(2) = Civil(2025, 2, 28)
    /\ Observed(3) = Civil(2025, 3, 31)

\* C17: weekly generation. For valid days since <= until the result is the
\* days since, since + 7, since + 14, ... up to and including until when it
\* is one of them, none beyond until, each at 23:59:59 UTC.
C17_Weekly ==
    (GenerateDatesReturned /\ interval = "weekly" /\ ValidDay(since)
        /\ ValidDay(until) /\ CivilLE(since, until)) =>
        LET expected == EverySeventhDay(Civil(since.y, since.m, since.d),
                                        Civil(until.y, until.m, until.d))
        IN  /\ Len(generated) = Len(expected)
            /\ \A i \in 1..Len(expected) :
                /\ Observed(i) = expected[i]
                /\ generated[i].sec = EndOfDaySeconds
C17_Witness ==
    /\ GenerateDatesReturned
    /\ interval = "weekly"
    /\ since = YearMonthDay(2025, 1, 1)
    /\ until = YearMonthDay(2025, 1, 22)
    /\ Len(generated) = 4
    /\ Observed(1).d = 1
    /\ Observed(2).d = 8
    /\ Observed(3).d = 15
    /\ Observed(4).d = 22

\* C18: target-set invariant. Whatever the arguments, the instants generated
\* are strictly increasing; monthly ones fall in consecutive calendar
\* months, weekly ones are exactly 7 days apart; any other interval gives
\* no instant.
C18_TargetSet ==
    /\ \A i \in 1..(Len(generated) - 1) :
        /\ TimeBefore(generated[i], generated[i + 1])
        /\ interval = "monthly" =>
            MonthIndex(Observed(i + 1).y, Observed(i + 1).m)
                = MonthIndex(Observed(i).y, Observed(i).m) + 1
        /\ interval = "weekly" =>
            /\ generated[i + 1].day = generated[i].day + 7
            /\ generated[i + 1].sec = generated[i].sec
    /\ interval \notin {"monthly", "weekly"} => generated = <<>>
C18_Witness ==
    /\ GenerateDatesReturned
    /\ interval = "weekly"
    /\ since = YearMonthDay(2024, 12, 28)
    /\ Len(generated) = 4
    /\ Observed(1) = Civil(2024, 12, 28)
    /\ Observed(4) = Civil(2025, 1, 18)

(***************************************************************************)
(* Properties of the trends task                                           *)
(***************************************************************************)
\* C19: per-period tolerance. A period whose date has no commit, whose
\* checkout fails or whose analysis fails adds no snapshot and does not stop
\* the loop: the task returns a map and a nil error, the map having an entry
\* exactly for the periods whose three steps succeeded; an error is returned
\* only before the loop, by the clone or the commit lookup.
C19_PerPeriodTolerance ==
    /\ \A i \in 1..Len(stepLog) :
        stepLog[i] = "absent" <=> tdates[i] \notin DOMAIN commitMap
    /\ tret.err # nil => (stepLog = <<>> /\ ~tret.hasMap)
    /\ (tpc = "done" /\ tret.err = nil) =>
        /\ tret.hasMap
        /\ Len(stepLog) = Len(tdates)
        /\ DOMAIN snapshots =
            {periods[i] : i \in {j \in 1..Len(tdates) : stepLog[j] = "ok"}}
C19_Witness ==
    /\ tpc = "done"
    /\ tret = [hasMap |-> TRUE, err |-> nil]
    /\ stepLog = <<"absent", "checkout", "analyze", "ok">>
    /\ DOMAIN snapshots = {periods[4]}

(***************************************************************************)
(* Properties of the per-commit stats fan-out                              *)
(***************************************************************************)
\* Commits whose CommitStats call returned an error, and returned stats
FailedCommits == {i \in DOMAIN wpc : wpc[i] \notin {"none", "call"} /\ wret[i].err # nil}
FetchedCommits == {i \in DOMAIN wpc : wpc[i] \notin {"none", "call"} /\ wret[i].err = nil}
RECURSIVE SetSum(_, _)
SetSum(S, f) ==
    IF S = {} THEN 0
    ELSE LET x == CHOOSE y \in S : TRUE IN f[x] + SetSum(S \ {x}, f)
FetchedAdditions == [i \in DOMAIN wret |-> wret[i].additions]
FetchedDeletions == [i \in DOMAIN wret |-> wret[i].deletions]
StatsReturned == spc \in {"returned", "recorded"}

\* C20: partial failures are diagnostics. Failing CommitStats calls never
\* make AnalyzeDetails or Estimate return a fatal error: the function returns
\* a result, a nil error and exactly one message per failed commit, its sums
\* are those of the commits whose stats were fetched, and the calling closure
\* records one diagnostic entry per message and returns a success.
C20_PartialFailures ==
    /\ (StatsReturned /\ sret.err # nil) =>
        (FailedCommits = {} /\ FetchedCommits = {} /\ ~sret.hasResult)
    /\ (StatsReturned /\ sret.err = nil) =>
        /\ sret.hasResult
        /\ Len(sret.partial) = Cardinality(FailedCommits)
        /\ \A i \in FailedCommits :
            Cardinality({k \in 1..Len(sret.partial) :
                sret.partial[k] = Message(scommits[i].Hash, wret[i].err)}) = 1
        /\ sfn = "details" =>
            \A w \in DOMAIN sret.result.ChurnByWindow :
                LET in == {i \in FetchedCommits : scommits[i].window = w}
                IN  /\ sret.result.ChurnByWindow[w].Additions
                            = SetSum(in, FetchedAdditions)
                    /\ sret.result.ChurnByWindow[w].Deletions
                            = SetSum(in, FetchedDeletions)
        /\ sfn = "estimate" =>
            sret.result.AIAdditions = SetSum(FetchedCommits, FetchedAdditions)
    /\ spc = "recorded" =>
        /\ Len(diagErrors) = Len(sret.partial)
        /\ \A k \in 1..Len(diagErrors) : diagErrors[k].Message = sret.partial[k]
        /\ sret.err = nil =>
            (outcome.err = nil /\ outcome.hasStats /\ outcome.attached = sret.result)
C20_Witness ==
    /\ spc = "recorded"
    /\ sfn = "estimate"
    /\ Len(scommits) = 2
    /\ FailedCommits = {1}
    /\ FetchedCommits = {2}
    /\ Len(diagErrors) = 1
    /\ outcome.err = nil
    /\ outcome.attached.AIAdditions = 5

(***************************************************************************)
(* Further properties of worker.RunTrends                                  *)
(***************************************************************************)
\* Goroutines that have sent to sem and not yet received from it
SlotHolders ==
    {r \in Repos :
        gpc[r] \in {"spawned", "process", "lock", "critical", "notify",
                    "release"}}
\* Repositories of the outcomes in a result slice
ReposOf(res) == {res[k].Repo : k \in 1..Len(res)}

\* C22: gate slots never leak. The number of elements in the gate always
\* equals the number of dispatched goroutines that have not yet run their
\* deferred release: every goroutine whose process call is running or has not
\* started yet holds a slot, a goroutine past its release holds none whatever
\* process returned (success, failure or cancellation), the gate never goes
\* negative, and when RunTrends has returned the gate is empty.
C22_GateSlotsNeverLeak ==
    /\ sem = Cardinality(SlotHolders)
    /\ sem >= 0
    /\ ActiveCalls \subseteq SlotHolders
    /\ \A r \in Repos : gpc[r] = "spawned" => r \in SlotHolders
    /\ \A r \in Repos :
        gpc[r] \in {"wgdone", "exit"} => r \notin SlotHolders
    /\ pc = "returned" => (sem = 0 /\ SlotHolders = {})
C22_Witness ==
    /\ pc = "returned"
    /\ sem = 0
    /\ Len(returned) = 2
    /\ \E k \in 1..2 : returned[k].Err = "failed"
    /\ \E k \in 1..2 : returned[k].Err = "context canceled"

\* C23: the mutex is held exactly by a goroutine that is between mu.Lock()
\* and mu.Unlock(), that is while it appends and counts; it is never held by
\* a goroutine whose process call is running, so a goroutine waiting in
\* mu.Lock() waits only for a goroutine that is inside that short section,
\* and never for itself.
C23_MutexOnlyForRecording ==
    /\ mu \in {0} \cup Repos
    /\ \A r \in Repos : (mu = r) <=> (gpc[r] = "critical")
    /\ \A r \in ActiveCalls : mu # r
    /\ \A r \in Repos :
        gpc[r] = "lock" => (mu # r /\ (mu = 0 \/ gpc[mu] = "critical"))
C23_Witness ==
    /\ gpc[1] = "process"
    /\ gpc[2] = "notify"
    /\ mu = 0
    /\ Len(results) = 1
    /\ results[1].Repo = 2

\* C26: accounting under cancellation. When RunTrends has returned, canceled
\* or not, the returned slice has one outcome per dispatched goroutine and,
\* when onProgress is not nil, the sink was called once per dispatched
\* goroutine; every call carried total = len(repos) and a completed count
\* between 1 and the number of goroutines dispatched.
C26_AccountingUnderCancellation ==
    /\ pc = "returned" =>
        /\ Len(returned) = Cardinality(Dispatched)
        /\ ReposOf(returned) = Dispatched
        /\ onProgress => Len(sink) = Cardinality(Dispatched)
    /\ \A k \in 1..Len(sink) :
        /\ sink[k].total = Len(repos)
        /\ sink[k].completed \in 1..Cardinality(Dispatched)
C26_Witness ==
    /\ pc = "returned"
    /\ ctxDone
    /\ onProgress
    /\ Len(repos) = 2
    /\ Dispatched = {1}
    /\ Len(returned) = 1
    /\ sink = <<[completed |-> 1, total |-> 2, repo |-> 1]>>

\* C27: termination. When every process call returns, the sink returns and
\* the scheduler runs every goroutine that can run, RunTrends eventually
\* returns, for every number of repositories and every concurrency
\* argument, whether or not the context is canceled.
C27_RunnerTerminates == <>(pc = "returned")
C27_Witness ==
    /\ pc = "returned"
    /\ requested = 1
    /\ ctxDone
    /\ late = 1
    /\ Len(returned) = 2

\* C28: a concurrency argument below 1 is treated as 1. After the clamp the
\* gate has capacity 1 when the argument was below 1 and the argument
\* otherwise; a run with an argument below 1 has at most one process call
\* running at a time, is never stuck before it has returned (some goroutine
\* can always take a step), and when it was not canceled it returns one
\* outcome for every repository.
C28_ClampedConcurrency ==
    /\ pc # "entry" => concurrency = (IF requested < 1 THEN 1 ELSE requested)
    /\ requested < 1 =>
        /\ Cardinality(ActiveCalls) <= 1
        /\ pc # "returned" => ENABLED RunnerProgress
        /\ (pc = "returned" /\ ~ctxDone) =>
            (Len(returned) = Len(repos) /\ ReposOf(returned) = InputRepos)
C28_Witness ==
    /\ pc = "returned"
    /\ requested = -1
    /\ concurrency = 1
    /\ ~ctxDone
    /\ Len(repos) = 2
    /\ Len(returned) = 2

(***************************************************************************)
(* Properties of health.Classify and health.ClassifyFromCommits            *)
(***************************************************************************)
\* The whole days from last to at: the number of full 24-hour periods that
\* fit between them, 0 when last is after at
WholeDays(last, at) ==
    IF TimeAfter(last, at) THEN 0
    ELSE CHOOSE n \in 0..(at.day - last.day) :
            /\ ~TimeAfter(Time(last.day + n, last.sec), at)
            /\ TimeAfter(Time(last.day + n + 1, last.sec), at)
\* The category the thresholds give to a number of days
CategoryOfDays(n) ==
    IF n < 180 THEN "active" ELSE IF n < 365 THEN "maintained" ELSE "abandoned"
\* The rows of TestClassifyBoundaries: daysAgo and the expected category
BoundaryRows ==
    {<<179, "active">>, <<180, "maintained">>, <<364, "maintained">>,
     <<365, "abandoned">>, <<366, "abandoned">>, <<0, "active">>}
\* The dates of the commits handed to ClassifyFromCommits
DatesOfCommits == {hcommits[k] : k \in 1..Len(hcommits)}

OpenBodies == {k \in 1..Len(bodies) : ~bodies[k].closed}

\* C24: body handling across retries. Whenever RoundTrip is in a backoff
\* wait, the body of every response received so far, the 429 response just
\* received included, has been read to its end and closed; at most one body
\* is open at any time; when RoundTrip returns a response, also the last 429
\* response after the retries are used up, the body of that response and no
\* other is open and unread; when it returns an error no body is open.
C24_BodiesAcrossRetries ==
    /\ Cardinality(OpenBodies) <= 1
    /\ rpc = "backoff" =>
        /\ Len(bodies) = throttled
        /\ Len(bodies) >= 1
        /\ \A k \in 1..Len(bodies) : bodies[k].read /\ bodies[k].closed
    /\ (rpc = "done" /\ rret.err = nil) =>
        /\ Len(bodies) >= 1
        /\ OpenBodies = {Len(bodies)}
        /\ ~bodies[Len(bodies)].read
        /\ \A k \in 1..(Len(bodies) - 1) : bodies[k].read
    /\ (rpc = "done" /\ rret.err # nil) => OpenBodies = {}
C24_Witness ==
    /\ rpc = "done"
    /\ rret.err = nil
    /\ rret.resp.status = StatusTooManyRequests
    /\ attempt = defaultMaxRetries
    /\ Len(bodies) = defaultMaxRetries + 1
    /\ OpenBodies = {Len(bodies)}

(***************************************************************************)
(* Further properties of history.FindCommits                               *)
(***************************************************************************)
\* The log yields the commits by non-increasing author timestamp
LogNonIncreasing ==
    \A k \in 1..(Len(log) - 1) : log[k].When >= log[k + 1].When

\* C30: monotonic resolution. When the log is ordered by non-increasing
\* author timestamp, for targets t1 < t2 of one call: when t1 has an entry in
\* the returned map so has t2, and the commit stored for t2 is not older than
\* the one stored for t1; the entry of a target is the first commit of the
\* log at or before it, whatever the other targets of the call are.
C30_MonotonicResolution ==
    (FindCommitsReturned /\ LogNonIncreasing) =>
        /\ \A t1, t2 \in TargetInstants :
            (t1 < t2 /\ t1 \in DOMAIN result) =>
                /\ t2 \in DOMAIN result
                /\ WhenOf(result[t2]) >= WhenOf(result[t1])
        /\ \A t \in TargetInstants :
            IF Qualifying(t) = {} THEN t \notin DOMAIN result
            ELSE /\ t \in DOMAIN result
                 /\ result[t] = log[SetMin(Qualifying(t))].Hash
C30_Witness ==
    /\ FindCommitsReturned
    /\ log = <<Commit(1, 3), Commit(2, 2), Commit(3, 1)>>
    /\ dates = <<1, 3>>
    /\ result[1] = 3
    /\ result[3] = 1

(***************************************************************************)
(* Properties of the per-commit fan-out                                    *)
(***************************************************************************)
\* Commits whose stats call is running
RunningCalls == {i \in DOMAIN wpc : wpc[i] = "call"}
\* Commits whose goroutine has ended
EndedCalls == {i \in DOMAIN wpc : wpc[i] = "gone"}
\* The limit the claim gives for each function
ClaimedLimit == IF sfn = "details" THEN 5 ELSE 10
\* The parts of the claim other than the stop at cancellation: the limit on
\* running calls, the wait before the aggregation, and every result at its
\* own index and nowhere else
FanOutDiscipline ==
    /\ Cardinality(RunningCalls) <= ClaimedLimit
    /\ ssem = Cardinality(RunningCalls)
    /\ (spc = "returned" /\ sret.hasResult) =>
        (RunningCalls = {} /\ swg = 0 /\ EndedCalls = 1..(si - 1))
    /\ \A i \in DOMAIN wpc :
        IF i \in EndedCalls /\ ~(sfn = "details" /\ wret[i].err # nil)
        THEN sresults[i] = wret[i]
        ELSE sresults[i] = ZeroResult
    /\ \A i \in EndedCalls : wret[i] \in CommitStatsReturns(scommits[i])

\* C29 as stated: the discipline above, and no call is dispatched once the
\* context is canceled.
C29_NoCallAfterCancel ==
    /\ FanOutDiscipline
    /\ lateCalls = 0

\* C29: per-commit fan-out. Analyze, AnalyzeDetails and Estimate run at most
\* 10, 5 and 10 commit-stat calls at the same time; after the context is
\* canceled at most one more call is dispatched, the one whose ctx.Err()
\* check had passed, and the loop then ends; the aggregation starts when no
\* dispatched call is running; every ended call has its result at its own
\* index and every other element is the zero value.
C29_BoundedFanOut ==
    /\ FanOutDiscipline
    /\ lateCalls <= 1
    /\ (sctxDone /\ spc = "loop") => ENABLED StatsLoopCheck
    /\ (spc = "wait" \/ (spc = "returned" /\ sret.hasResult)) =>
        (si > Len(scommits) \/ sctxDone)
C29_Witness ==
    /\ sfn = "churn"
    /\ spc = "wait"
    /\ sctxDone
    /\ lateCalls = 1
    /\ si = 12
    /\ ssem = 10
    /\ Cardinality(RunningCalls) = 10

====
